---- MODULE Spec2Model ----
(***************************************************************************)
(* Model of kinto-redis: the object store (kinto_redis/storage.py) and the *)
(* permission engine (kinto_redis/permission.py) on top of a Redis client. *)
(*                                                                         *)
(* A Redis key 'a.b.c' is modelled by the tuple of its '.'-separated       *)
(* segments <<"a","b","c">>, so that str.format builds keys by             *)
(* concatenation, key.split('.') is the tuple itself and scan patterns are *)
(* matched segment-wise.  The string keyspace (GET/SET/DEL/MGET) is db.kv, *)
(* the set keyspace (SADD/SREM/SMEMBERS) is db.sets; a key is present iff  *)
(* it is in the DOMAIN (Redis drops a set key when its set gets empty).    *)
(***************************************************************************)
EXTENDS Integers, Sequences, FiniteSets, TLC

VARIABLES db,        \* storage Redis database: [kv |-> ..., sets |-> ...]
          ret,       \* the call that just completed: arguments and outcome
          gen,       \* number of identifiers the id generator has handed out
          readonly,  \* per caller: Storage.readonly of its Storage instance
          pc,        \* per caller: position inside a call in progress
          frame,     \* per caller: arguments and locals of that call
          watched,   \* per caller: keys WATCHed and not modified since
          issued,    \* the last return of bump_and_store_timestamp, and the
                     \* highest value it returned before that
          perm       \* permission Redis database: key -> set of members

\* ret.op comes first: the values of two calls need not be comparable, their
\* names are.
vars == <<ret.op, db, ret, gen, readonly, pc, frame, watched, issued, perm>>

-----------------------------------------------------------------------------
(* Bounds *)

NumProcs == 2      \* concurrent callers
MaxTs    == 3      \* largest clock value and largest counter value explored
MaxGen   == 1      \* identifiers the generator may hand out

Procs       == 1..NumProcs
Collections == {"c1", "c2"}
Parents     == {"p1"}
Ids         == {"a", "b"}
\* The identifiers callers use in each collection: two objects in c1, one in c2.
IdsOf(collection_id) == IF collection_id = "c1" THEN Ids ELSE {"a"}
Vals        == {1, 2}
Clock       == 1..MaxTs

\* Python None where an integer is optional (last_modified=None, before=None,
\* limit=None, filters=None).
NoneInt == -1

\* '{0}'.format(None): a collection_id of None is formatted as the text None.
NoneText == "None"

-----------------------------------------------------------------------------
(* Key namespace *)

TimestampKey(collection_id, parent_id) == <<collection_id, parent_id, "timestamp">>

RecordsKey(collection_id, parent_id) == <<collection_id, parent_id, "records">>

RecordKey(collection_id, parent_id, _id) == <<collection_id, parent_id, _id, "records">>

DeletedKey(collection_id, parent_id) == <<collection_id, parent_id, "deleted">>

DeletedRecordKey(collection_id, parent_id, _id) == <<collection_id, parent_id, _id, "deleted">>

-----------------------------------------------------------------------------
(* Redis commands, as functions of a keyspace *)

KvSet(kv, key, value) ==
    [k \in DOMAIN kv \cup {key} |-> IF k = key THEN value ELSE kv[k]]

KvDel(kv, keys) == [k \in DOMAIN kv \ keys |-> kv[k]]

SMembers(sets, key) == IF key \in DOMAIN sets THEN sets[key] ELSE {}

SAdd(sets, key, member) ==
    [k \in DOMAIN sets \cup {key} |->
        IF k = key THEN SMembers(sets, key) \cup {member} ELSE sets[k]]

\* Variant of SRem that keeps a key whose set became empty.
SRem_keeping_empty(sets, key, members) ==
    [k \in DOMAIN sets |-> IF k = key THEN sets[k] \ members ELSE sets[k]]

SRem(sets, key, members) ==
    IF SMembers(sets, key) \ members = {}
    THEN [k \in DOMAIN sets \ {key} |-> sets[k]]
    ELSE [sets EXCEPT ![key] = @ \ members]

\* Glob matching of SCAN: '*' matches any run of characters, dots included.
\* On segment tuples a '*' segment matches one or more whole segments.
RECURSIVE GlobMatch(_, _)
GlobMatch(pattern, key) ==
    IF pattern = <<>> THEN key = <<>>
    ELSE IF key = <<>> THEN FALSE
    ELSE IF Head(pattern) = "*"
         THEN GlobMatch(Tail(pattern), Tail(key)) \/ GlobMatch(pattern, Tail(key))
         ELSE Head(pattern) = Head(key) /\ GlobMatch(Tail(pattern), Tail(key))

-----------------------------------------------------------------------------
(* Values *)

_encode(record) == [json |-> record]

_decode(encoded) == encoded.json

HasField(record, field) == field \in DOMAIN record

SetField(record, field, value) ==
    [f \in DOMAIN record \cup {field} |-> IF f = field THEN value ELSE record[f]]

DelField(record, field) == [f \in DOMAIN record \ {field} |-> record[f]]

Max(S) == CHOOSE x \in S : \A y \in S : y <= x

\* The outcome of a call: the database it leaves, the exception it raises
\* ("" when it returns) and the value returned or carried by the exception.
Ok(d, value) == [db |-> d, exc |-> "", val |-> value]

Raise(d, exception, value) == [db |-> d, exc |-> exception, val |-> value]

-----------------------------------------------------------------------------
(* Helpers inherited from kinto.core's MemoryBasedStorage *)

\* record=None
NoRecord == <<>>

\* bump_timestamp(collection_timestamp, record, modified_field, last_modified):
\* the pair <<current, collection_timestamp>> of the timestamp assigned to the
\* object and the new counter value; now is the clock reading (milliseconds).
\* The new counter is the highest of the counter, the clock and a timestamp
\* given by the caller, plus one when that does not exceed the counter; the
\* object is stamped with the caller's timestamp when one is given and with
\* the new counter otherwise.
bump_timestamp(collection_timestamp, record, modified_field, last_modified, now) ==
    LET specified == IF last_modified # NoneInt THEN {last_modified}
                     ELSE IF HasField(record, modified_field)
                          THEN {record[modified_field]} ELSE {}
        highest   == Max({collection_timestamp, now} \cup specified)
        new       == IF highest = collection_timestamp
                     THEN collection_timestamp + 1 ELSE highest
        current   == IF specified # {} THEN Max(specified) ELSE new
    IN  <<current, new>>

\* strip_deleted_record: the tombstone keeps the id and the timestamp.
strip_deleted_record(record) ==
    [id |-> record["id"], last_modified |-> record["last_modified"], deleted |-> TRUE]

\* extract_record_set with filters only: filters is NoneInt (no filter) or a
\* bound k standing for the single filter v < k.
apply_filters(records, filters) ==
    {r \in records : filters = NoneInt \/ (HasField(r, "v") /\ r["v"] < filters)}

-----------------------------------------------------------------------------
(* Storage: each public method run to completion on a database d *)

\* int(pipe.get(key) or 0)
CounterOf(d, key) == IF key \in DOMAIN d.kv THEN d.kv[key] ELSE 0

\* Variant of bump_and_store_timestamp whose pipeline drops the SET of the
\* counter key.
bump_and_store_timestamp_unsaved(d, collection_id, parent_id, record, last_modified, now) ==
    LET key == TimestampKey(collection_id, parent_id)
        bumped == bump_timestamp(CounterOf(d, key), record,
                                 "last_modified", last_modified, now)
    IN  Ok(d, bumped[1])

\* One pass of the watch/get/multi/set/execute loop with nobody else writing.
bump_and_store_timestamp(d, collection_id, parent_id, record, last_modified, now) ==
    LET key == TimestampKey(collection_id, parent_id)
        current_collection_timestamp == CounterOf(d, key)
        bumped == bump_timestamp(current_collection_timestamp, record,
                                 "last_modified", last_modified, now)
    IN  Ok([d EXCEPT !.kv = KvSet(d.kv, key, bumped[2])], bumped[1])

\* Variant of collection_timestamp without the readonly test.
collection_timestamp_writing(d, collection_id, parent_id, ro, now) ==
    LET key == TimestampKey(collection_id, parent_id)
    IN  IF key \in DOMAIN d.kv THEN Ok(d, d.kv[key])
        ELSE bump_and_store_timestamp(d, collection_id, parent_id, NoRecord, NoneInt, now)

collection_timestamp(d, collection_id, parent_id, ro, now) ==
    LET key == TimestampKey(collection_id, parent_id)
    IN  IF key \in DOMAIN d.kv THEN Ok(d, d.kv[key])
        ELSE IF ro THEN Raise(d, "BackendError", "readonly")
        ELSE bump_and_store_timestamp(d, collection_id, parent_id, NoRecord, NoneInt, now)

\* set_record_timestamp: bump the scope counter and stamp the record.
set_record_timestamp(d, collection_id, parent_id, record, last_modified, now) ==
    LET b == bump_and_store_timestamp(d, collection_id, parent_id, record,
                                      last_modified, now)
    IN  Ok(b.db, SetField(record, "last_modified", b.val))

get(d, collection_id, parent_id, object_id) ==
    LET record_key == RecordKey(collection_id, parent_id, object_id)
    IN  IF record_key \notin DOMAIN d.kv
        THEN Raise(d, "RecordNotFoundError", object_id)
        ELSE Ok(d, _decode(d.kv[record_key]))

\* Variant of StorePipeline that stores the value without its timestamp.
StorePipeline_unstamped(d, collection_id, parent_id, _id, record) ==
    [kv   |-> KvSet(d.kv, RecordKey(collection_id, parent_id, _id),
                    _encode(DelField(record, "last_modified"))),
     sets |-> SRem(SAdd(d.sets, RecordsKey(collection_id, parent_id), _id),
                   DeletedKey(collection_id, parent_id), {_id})]

\* Variant of StorePipeline without the SREM on the tombstone-id set.
StorePipeline_keeping_tombstone(d, collection_id, parent_id, _id, record) ==
    [kv   |-> KvSet(d.kv, RecordKey(collection_id, parent_id, _id), _encode(record)),
     sets |-> SAdd(d.sets, RecordsKey(collection_id, parent_id), _id)]

\* Variant of StorePipeline without the SADD on the live-id set.
StorePipeline_unlisted(d, collection_id, parent_id, _id, record) ==
    [kv   |-> KvSet(d.kv, RecordKey(collection_id, parent_id, _id), _encode(record)),
     sets |-> SRem(d.sets, DeletedKey(collection_id, parent_id), {_id})]

\* The pipeline of create and update: SET, SADD, SREM in one MULTI/EXEC.
StorePipeline(d, collection_id, parent_id, _id, record) ==
    [kv   |-> KvSet(d.kv, RecordKey(collection_id, parent_id, _id), _encode(record)),
     sets |-> SRem(SAdd(d.sets, RecordsKey(collection_id, parent_id), _id),
                   DeletedKey(collection_id, parent_id), {_id})]

\* Variant of create without the unicity check.
create_unchecked(d, collection_id, parent_id, record, generated, now) ==
    LET withId  == IF HasField(record, "id") THEN record
                   ELSE SetField(record, "id", generated)
        stamped == set_record_timestamp(d, collection_id, parent_id,
                                        withId, NoneInt, now)
    IN  Ok(StorePipeline(stamped.db, collection_id, parent_id,
                         withId["id"], stamped.val),
           stamped.val)

create(d, collection_id, parent_id, record, generated, now) ==
    LET existing == get(d, collection_id, parent_id, record["id"])
    IN  IF HasField(record, "id") /\ existing.exc = ""
        THEN Raise(d, "UnicityError", existing.val)
        ELSE LET withId  == IF HasField(record, "id") THEN record
                            ELSE SetField(record, "id", generated)
                 stamped == set_record_timestamp(d, collection_id, parent_id,
                                                 withId, NoneInt, now)
             IN  Ok(StorePipeline(stamped.db, collection_id, parent_id,
                                  withId["id"], stamped.val),
                    stamped.val)

\* Variant of update that keeps an id found in the given object.
update_keeping_id(d, collection_id, parent_id, object_id, record, now) ==
    LET withId  == IF HasField(record, "id") THEN record
                   ELSE SetField(record, "id", object_id)
        stamped == set_record_timestamp(d, collection_id, parent_id,
                                        withId, NoneInt, now)
    IN  Ok(StorePipeline(stamped.db, collection_id, parent_id, object_id, stamped.val),
           stamped.val)

update(d, collection_id, parent_id, object_id, record, now) ==
    LET withId  == SetField(record, "id", object_id)
        stamped == set_record_timestamp(d, collection_id, parent_id,
                                        withId, NoneInt, now)
    IN  Ok(StorePipeline(stamped.db, collection_id, parent_id, object_id, stamped.val),
           stamped.val)

\* Variant of RemovePipeline without the DEL of the value key.
RemovePipeline_keeping_value(d, collection_id, parent_id, object_id) ==
    [kv   |-> d.kv,
     sets |-> SRem(d.sets, RecordsKey(collection_id, parent_id), {object_id})]

\* The first pipeline of delete: GET, DEL, SREM in one MULTI/EXEC.
RemovePipeline(d, collection_id, parent_id, object_id) ==
    [kv   |-> KvDel(d.kv, {RecordKey(collection_id, parent_id, object_id)}),
     sets |-> SRem(d.sets, RecordsKey(collection_id, parent_id), {object_id})]

\* The second pipeline of delete: SET, SADD in one MULTI/EXEC.
TombstonePipeline(d, collection_id, parent_id, object_id, tombstone) ==
    [kv   |-> KvSet(d.kv, DeletedRecordKey(collection_id, parent_id, object_id),
                    _encode(tombstone)),
     sets |-> SAdd(d.sets, DeletedKey(collection_id, parent_id), object_id)]

delete(d, collection_id, parent_id, object_id, with_deleted, last_modified, now) ==
    LET record_key == RecordKey(collection_id, parent_id, object_id)
        removed    == RemovePipeline(d, collection_id, parent_id, object_id)
    IN  IF record_key \notin DOMAIN d.kv
        THEN Raise(removed, "RecordNotFoundError", object_id)
        ELSE LET existing == DelField(_decode(d.kv[record_key]), "last_modified")
                 stamped  == set_record_timestamp(removed, collection_id, parent_id,
                                                  existing, last_modified, now)
                 tombstone == strip_deleted_record(stamped.val)
             IN  Ok(IF with_deleted
                    THEN TombstonePipeline(stamped.db, collection_id, parent_id,
                                           object_id, tombstone)
                    ELSE stamped.db,
                    tombstone)

\* The 3-segment id-set keys among the keys a scan for keys_pattern returns:
\* [key for key in collections_keys if len(key.split('.')) == 3]
\* (scan_iter(match=keys_pattern) goes through every key of the database, of
\* either type)
CollectionsKeys(d, keys_pattern) ==
    {key \in DOMAIN d.kv \cup DOMAIN d.sets : GlobMatch(keys_pattern, key) /\ Len(key) = 3}

\* if collection_id is None: collection_id = '*'
StarIfNone(collection_id) == IF collection_id = NoneText THEN "*" ELSE collection_id

\* Variant of MGetDecoded that decodes an empty object for a missing value.
MGetDecoded_listed(d, collection_key, ids, kind) ==
    {IF <<collection_key[1], collection_key[2], _id, kind>> \in DOMAIN d.kv
     THEN _decode(d.kv[<<collection_key[1], collection_key[2], _id, kind>>])
     ELSE [id |-> _id] : _id \in ids}

\* MGET of the value keys of ids, decoded, missing values dropped:
\* [self._decode(r) for r in results if r]
MGetDecoded(d, collection_key, ids, kind) ==
    {_decode(d.kv[<<collection_key[1], collection_key[2], _id, kind>>]) :
        _id \in {i \in ids : <<collection_key[1], collection_key[2], i, kind>> \in DOMAIN d.kv}}

\* Variant of ToRemove that also removes the tombstones stamped before itself.
ToRemove_inclusive(d, collection_key, before) ==
    {t["id"] : t \in {x \in MGetDecoded(d, collection_key,
                                        SMembers(d.sets, collection_key), "deleted") :
                         before = NoneInt \/ x["last_modified"] <= before}}

\* What purge_deleted removes under one tombstone-id set key.
ToRemove(d, collection_key, before) ==
    {t["id"] : t \in {x \in MGetDecoded(d, collection_key,
                                        SMembers(d.sets, collection_key), "deleted") :
                         before = NoneInt \/ x["last_modified"] < before}}

purge_deleted(d, collection_id, parent_id, before) ==
    LET keys_pattern     == <<StarIfNone(collection_id), parent_id, "deleted">>
        collections_keys == CollectionsKeys(d, keys_pattern)
        removed_keys     == UNION {{<<key[1], key[2], _id, "deleted">> :
                                        _id \in ToRemove(d, key, before)} :
                                   key \in collections_keys}
        emptied          == {key \in collections_keys :
                                SMembers(d.sets, key) \ ToRemove(d, key, before) = {}}
        number_deleted   == Cardinality(removed_keys)
    IN  Ok([kv   |-> KvDel(d.kv, removed_keys),
            sets |-> [key \in DOMAIN d.sets \ emptied |->
                         IF key \in collections_keys
                         THEN d.sets[key] \ ToRemove(d, key, before)
                         ELSE d.sets[key]]],
           number_deleted)

\* _get_objects_by_parent_id(parent_id, collection_id, with_meta=True)
_get_objects_by_parent_id(d, parent_id, collection_id) ==
    LET keys_pattern     == <<StarIfNone(collection_id), parent_id, "records">>
        collections_keys == CollectionsKeys(d, keys_pattern)
    IN  UNION {{SetField(SetField(r, "__collection_id__", key[1]), "__parent_id__", key[2]) :
                    r \in MGetDecoded(d, key, SMembers(d.sets, key), "records")} :
               key \in collections_keys}

\* The pages extract_record_set may return for an unsorted candidate set: any
\* ordering of the records passing the filters, cut to limit.
RECURSIVE Orderings(_)
Orderings(S) ==
    IF S = {} THEN {<<>>}
    ELSE UNION {{<<x>> \o rest : rest \in Orderings(S \ {x})} : x \in S}

extract_record_set(records, filters, limit) ==
    {IF limit # NoneInt /\ limit < Len(page) THEN SubSeq(page, 1, limit) ELSE page :
        page \in Orderings(apply_filters(records, filters))}

\* What get_all hands to extract_record_set: the objects listed by
\* _get_objects_by_parent_id(parent_id, collection_id), without the meta
\* fields, and with include_deleted the tombstones listed under the id sets
\* its own scan finds.
get_all_records(d, collection_id, parent_id, include_deleted) ==
    LET records_keys == CollectionsKeys(d, <<StarIfNone(collection_id), parent_id, "records">>)
        records      == UNION {MGetDecoded(d, key, SMembers(d.sets, key), "records") :
                                  key \in records_keys}
        \* keys_pattern = '{0}.{1}.deleted'.format(collection_id, parent_id), with
        \* the collection_id the caller passed: None is formatted as 'None'
        deleted_keys == CollectionsKeys(d, <<collection_id, parent_id, "deleted">>)
        deleted      == IF include_deleted
                        THEN UNION {MGetDecoded(d, key, SMembers(d.sets, key), "deleted") :
                                       key \in deleted_keys}
                        ELSE {}
    IN  records \cup deleted

\* get_all without sorting, pagination rules or limit: the objects of the
\* page extract_record_set returns, whose order is then unspecified, as a set.
get_all(d, collection_id, parent_id, filters, include_deleted) ==
    apply_filters(get_all_records(d, collection_id, parent_id, include_deleted), filters)

\* Variant of DeleteEach that deletes every record in the collection of the
\* first one.
RECURSIVE DeleteEach_same_collection(_, _, _, _, _)
DeleteEach_same_collection(d, records, with_deleted, now, deleted) ==
    IF records = <<>> THEN Ok(d, deleted)
    ELSE LET r   == Head(records)
             one == delete(d, r["__collection_id__"], r["__parent_id__"], r["id"],
                           with_deleted, NoneInt, now)
             rest == [i \in 1..(Len(records) - 1) |->
                         SetField(records[i + 1], "__collection_id__",
                                  r["__collection_id__"])]
         IN  IF one.exc # "" THEN one
             ELSE DeleteEach_same_collection(one.db, rest, with_deleted, now,
                                             Append(deleted, one.val))

\* deleted = [self.delete(r.pop('__collection_id__'), r.pop('__parent_id__'), r[id_field], ...) for r in records]
RECURSIVE DeleteEach(_, _, _, _, _)
DeleteEach(d, records, with_deleted, now, deleted) ==
    IF records = <<>> THEN Ok(d, deleted)
    ELSE LET r   == Head(records)
             one == delete(d, r["__collection_id__"], r["__parent_id__"], r["id"],
                           with_deleted, NoneInt, now)
         IN  IF one.exc # "" THEN one
             ELSE DeleteEach(one.db, Tail(records), with_deleted, now,
                             Append(deleted, one.val))

delete_all(d, page, with_deleted, now) == DeleteEach(d, page, with_deleted, now, <<>>)

-----------------------------------------------------------------------------
(* Inputs *)

\* id_generator(): a fresh identifier, never one a caller supplies.
GeneratedId(n) == "u" \o ToString(n)

\* The objects callers pass to create and update: a data field v, with or
\* without an id and with or without a last_modified of their own (one of
\* timestamps).
InputRecords(timestamps) ==
    {[v |-> x] : x \in Vals}
    \cup {[v |-> x, last_modified |-> t] : x \in Vals, t \in timestamps}
    \cup {[id |-> i, v |-> x] : i \in Ids, x \in Vals}
    \cup {[id |-> i, v |-> x, last_modified |-> t] : i \in Ids, x \in Vals, t \in timestamps}

\* Objects that carry only the data field, and objects that carry an id too.
PlainRecords == {[v |-> x] : x \in Vals}

IdentifiedRecords == {[id |-> i, v |-> x] : i \in Ids, x \in Vals}

\* collection_id=None selects every collection of the parent.
OrNone(collections) == collections \cup {NoneText}

\* The counters stay within the explored range.
WithinBounds(d) ==
    \A c \in Collections, par \in Parents : CounterOf(d, TimestampKey(c, par)) <= MaxTs

Completed(name, arguments, outcome) ==
    [op |-> name, args |-> arguments, exc |-> outcome.exc, val |-> outcome.val]

\* A call that runs to completion with outcome r; its result is in ret until
\* the caller has taken it.
Returns(name, arguments, r) ==
    /\ ret.op = "none"
    /\ WithinBounds(r.db)
    /\ db' = r.db
    /\ ret' = Completed(name, arguments, r)
    /\ UNCHANGED <<readonly, pc, frame, watched, issued, perm>>

\* The caller takes the result of the completed call.
Return ==
    /\ ret.op # "none"
    /\ ret' = [op |-> "none", args |-> <<>>, exc |-> "", val |-> 0]
    /\ UNCHANGED <<db, gen, readonly, pc, frame, watched, issued, perm>>

-----------------------------------------------------------------------------
(* The object store, one action per public method.  The parameters are the  *)
(* sets the arguments are drawn from.                                       *)

CallCollectionTimestamp(collections) ==
    \E p \in Procs, c \in collections, par \in Parents, now \in Clock :
        /\ Returns("collection_timestamp",
                   [collection_id |-> c, parent_id |-> par, readonly |-> readonly[p]],
                   collection_timestamp(db, c, par, readonly[p], now))
        /\ UNCHANGED gen

CallCreate(collections, records) ==
    \E c \in collections, par \in Parents, record \in records :
        /\ HasField(record, "id") => record["id"] \in IdsOf(c)
        /\ ~HasField(record, "id") => gen < MaxGen
        /\ \E now \in Clock :
            Returns("create", [collection_id |-> c, parent_id |-> par, record |-> record],
                    create(db, c, par, record, GeneratedId(gen + 1), now))
        /\ gen' = IF HasField(record, "id") THEN gen ELSE gen + 1

CallGet(collections) ==
    \E c \in collections, par \in Parents : \E object_id \in IdsOf(c) :
        /\ Returns("get", [collection_id |-> c, parent_id |-> par, object_id |-> object_id],
                   get(db, c, par, object_id))
        /\ UNCHANGED gen

CallUpdate(collections, records) ==
    \E c \in collections, par \in Parents, record \in records, now \in Clock :
      \E object_id \in IdsOf(c) :
        /\ Returns("update",
                   [collection_id |-> c, parent_id |-> par, object_id |-> object_id,
                    record |-> record],
                   update(db, c, par, object_id, record, now))
        /\ UNCHANGED gen

CallDelete(collections, timestamps) ==
    \E c \in collections, par \in Parents, with_deleted \in BOOLEAN,
       last_modified \in {NoneInt} \cup timestamps, now \in Clock :
      \E object_id \in IdsOf(c) :
        /\ Returns("delete",
                   [collection_id |-> c, parent_id |-> par, object_id |-> object_id,
                    with_deleted |-> with_deleted, last_modified |-> last_modified],
                   delete(db, c, par, object_id, with_deleted, last_modified, now))
        /\ UNCHANGED gen

CallPurgeDeleted(collections) ==
    \E c \in OrNone(collections), par \in Parents, before \in {NoneInt} \cup Clock :
        /\ Returns("purge_deleted",
                   [collection_id |-> c, parent_id |-> par, before |-> before],
                   purge_deleted(db, c, par, before))
        /\ UNCHANGED gen

CallDeleteAll(collections) ==
    \E c \in OrNone(collections), par \in Parents :
      LET records == _get_objects_by_parent_id(db, par, c) IN
      \E filters \in {NoneInt, Max(Vals)}, limit \in {NoneInt, 1} :
        \E page \in extract_record_set(records, filters, limit) :
          \E with_deleted \in BOOLEAN, now \in Clock :
            /\ Returns("delete_all",
                       [collection_id |-> c, parent_id |-> par, filters |-> filters,
                        limit |-> limit, with_deleted |-> with_deleted, page |-> page],
                       delete_all(db, page, with_deleted, now))
            /\ UNCHANGED gen

\* get_all with no filter and no limit.
CallGetAll(collections) ==
    \E c \in OrNone(collections), par \in Parents, include_deleted \in BOOLEAN :
        /\ Returns("get_all",
                   [collection_id |-> c, parent_id |-> par,
                    include_deleted |-> include_deleted],
                   Ok(db, get_all(db, c, par, NoneInt, include_deleted)))
        /\ UNCHANGED gen

-----------------------------------------------------------------------------
(* Spec: one collection (one caller-chosen id, generated ids), callers     *)
(* passing timestamps of their own, calls running one at a time.           *)

Init ==
    /\ db = [kv |-> <<>>, sets |-> <<>>]
    /\ ret = [op |-> "none", args |-> <<>>, exc |-> "", val |-> 0]
    /\ gen = 0
    /\ readonly = [p \in Procs |-> p = NumProcs]
    /\ pc = [p \in Procs |-> "idle"]
    /\ frame = [p \in Procs |-> <<>>]
    /\ watched = [p \in Procs |-> {}]
    /\ issued = [before |-> 0,
                 last |-> [val |-> 0, last_modified |-> NoneInt, retried |-> FALSE]]
    /\ perm = <<>>

Next ==
    \/ CallCollectionTimestamp({"c2"})
    \/ CallCreate({"c2"}, InputRecords(Clock))
    \/ CallGet({"c2"})
    \/ CallUpdate({"c2"}, InputRecords(Clock))
    \/ CallDelete({"c2"}, Clock)
    \/ CallPurgeDeleted({"c2"})
    \/ CallDeleteAll({"c2"})
    \/ CallGetAll({"c2"})
    \/ Return

Spec == Init /\ [][Next]_vars

(* SpecScopes: two collections, no caller-supplied timestamps. *)

NextScopes ==
    \/ CallCollectionTimestamp(Collections)
    \/ CallCreate(Collections, IdentifiedRecords)
    \/ CallGet(Collections)
    \/ CallUpdate(Collections, PlainRecords)
    \/ CallDelete(Collections, {})
    \/ CallPurgeDeleted(Collections)
    \/ CallDeleteAll(Collections)
    \/ CallGetAll(Collections)
    \/ Return

SpecScopes == Init /\ [][NextScopes]_vars

-----------------------------------------------------------------------------
(* Properties of the object store *)

\* The step is a call of method name: its arguments and outcome are in ret'.
Called(name) == ret.op = "none" /\ ret'.op = name

\* The scope counter key of the call in r.
ScopeKey(r) == TimestampKey(r.args.collection_id, r.args.parent_id)

\* The caller of r gave a timestamp of its own: delete's last_modified, or a
\* last_modified field in the object given to create or update.
CallerTimestamp(r) ==
    IF r.op = "delete" THEN r.args.last_modified # NoneInt
    ELSE HasField(r.args.record, "last_modified")

Writes == {"create", "update", "delete"}

C10_CollectionTimestamp ==
    [][Called("collection_timestamp")
        => IF ScopeKey(ret') \in DOMAIN db.kv
           THEN /\ ret'.exc = ""
                /\ ret'.val = db.kv[ScopeKey(ret')]
                /\ db' = db
           ELSE IF ret'.args.readonly
           THEN /\ ret'.exc = "BackendError"
                /\ db' = db
           ELSE /\ ret'.exc = ""
                /\ ScopeKey(ret') \in DOMAIN db'.kv
                /\ ret'.val = db'.kv[ScopeKey(ret')]
                /\ ret'.val > 0
                /\ db'.sets = db.sets
                /\ DOMAIN db'.kv = DOMAIN db.kv \cup {ScopeKey(ret')}
                /\ \A key \in DOMAIN db.kv : db'.kv[key] = db.kv[key]]_vars

\* C10 witness: a read-only backend has refused to initialise an absent
\* counter.
C10_Witness ==
    /\ ret.op = "collection_timestamp"
    /\ ret.exc = "BackendError"
    /\ ret.args.readonly
    /\ ScopeKey(ret) \notin DOMAIN db.kv

\* The live object stored under an id of a scope, as a set of at most one.
Live(d, collection_id, parent_id, object_id) ==
    {_decode(d.kv[key]) : key \in {RecordKey(collection_id, parent_id, object_id)} \cap DOMAIN d.kv}

LiveKeys(d) == {key \in DOMAIN d.kv : Len(key) = 4 /\ key[4] = "records"}

\* The call in r is applied to the object stored under key.
Targets(r, key) ==
    /\ key[1] = r.args.collection_id \/ r.op = "delete_all"
    /\ key[2] = r.args.parent_id
    /\ \/ r.op \in {"update", "delete"} /\ key[3] = r.args.object_id
       \/ r.op = "delete_all"

\* C4: after a successful create, get on the id of the returned object returns
\* that object: the fields supplied, the id supplied or generated, and the
\* timestamp assigned. A stored object changes or disappears only by an
\* update or a delete of its id.
C4_CreateThenGet ==
    [][ret.op = "none"
        => /\ (ret'.op = "create" /\ ret'.exc = "")
              => LET a     == ret'.args
                     after == get(db', a.collection_id, a.parent_id, ret'.val["id"])
                 IN  /\ after.exc = ""
                     /\ after.val = ret'.val
                     /\ HasField(ret'.val, "last_modified")
                     /\ \A f \in DOMAIN a.record \ {"last_modified"} :
                            ret'.val[f] = a.record[f]
           /\ \A key \in LiveKeys(db) :
                  (key \notin DOMAIN db'.kv \/ db'.kv[key] # db.kv[key])
                  => Targets(ret', key)]_vars

\* C4 witness: a create without an id has returned an object with a generated
\* id while another object of the scope was live.
C4_Witness ==
    /\ ret.op = "create" /\ ret.exc = ""
    /\ ~HasField(ret.args.record, "id")
    /\ ret.val["id"] = GeneratedId(1)
    /\ Cardinality(LiveKeys(db)) = 2

\* C5: after a successful delete, get on the id fails with
\* RecordNotFoundError, and goes on failing until the id is created or
\* updated again; get and delete on an id with no live object both fail with
\* RecordNotFoundError.
C5_DeleteThenGet ==
    [][ret.op = "none"
        => /\ (ret'.op = "delete" /\ ret'.exc = "")
              => get(db', ret'.args.collection_id, ret'.args.parent_id,
                     ret'.args.object_id).exc = "RecordNotFoundError"
           /\ (ret'.op \in {"get", "delete"}
               /\ Live(db, ret'.args.collection_id, ret'.args.parent_id,
                       ret'.args.object_id) = {})
              => ret'.exc = "RecordNotFoundError"
           /\ \A key \in LiveKeys(db') \ LiveKeys(db) :
                  /\ ret'.op \in {"create", "update"}
                  /\ ret'.exc = ""
                  /\ key = RecordKey(ret'.args.collection_id, ret'.args.parent_id,
                                     ret'.val["id"])]_vars

\* C5 witness: a delete has succeeded and left a tombstone for the id.
C5_Witness ==
    /\ ret.op = "delete" /\ ret.exc = ""
    /\ ret.args.with_deleted
    /\ Live(db, ret.args.collection_id, ret.args.parent_id, ret.args.object_id) = {}
    /\ DeletedRecordKey(ret.args.collection_id, ret.args.parent_id, ret.args.object_id)
           \in DOMAIN db.kv

\* C3: create with an id that a live object of the same scope already has
\* fails with UnicityError carrying that object and stores nothing; an id
\* that is live only in other scopes does not make create fail.
C3_Unicity ==
    [][(Called("create") /\ HasField(ret'.args.record, "id"))
        => LET a == ret'.args
               existing == Live(db, a.collection_id, a.parent_id, a.record["id"])
           IN  IF existing # {}
               THEN /\ ret'.exc = "UnicityError"
                    /\ existing = {ret'.val}
                    /\ db' = db
               ELSE /\ ret'.exc = ""
                    /\ Live(db', a.collection_id, a.parent_id, a.record["id"])
                           = {ret'.val}]_vars

\* C3 witness: create has failed with UnicityError on an id that is live in
\* both collections.
C3_Witness ==
    /\ ret.op = "create" /\ ret.exc = "UnicityError"
    /\ \A c \in Collections : Live(db, c, ret.args.parent_id, ret.args.record["id"]) # {}

\* The scopes a call with collection_id (or None) and parent_id covers.
Matching(collection_id, parent_id) ==
    {<<c, par>> \in Collections \X Parents :
        (collection_id = NoneText \/ c = collection_id) /\ par = parent_id}

\* The ids listed in the tombstone-id set of a scope.
TombstoneIds(d, scope) == SMembers(d.sets, DeletedKey(scope[1], scope[2]))

\* The stored tombstone of an id of a scope.
Tombstone(d, scope, object_id) ==
    _decode(d.kv[DeletedRecordKey(scope[1], scope[2], object_id)])

\* The tombstones purge_deleted(collection_id, parent_id, before) is to
\* remove from d, as <<scope, id>> pairs.
Purged(d, collection_id, parent_id, before) ==
    {<<scope, object_id>> \in Matching(collection_id, parent_id) \X Ids :
        /\ object_id \in TombstoneIds(d, scope)
        /\ before = NoneInt \/ Tombstone(d, scope, object_id)["last_modified"] < before}

\* C6: purge_deleted removes exactly the tombstones of the matching scopes
\* stamped strictly before the bound (all of them when no bound is given; a
\* tombstone stamped at the bound is kept), removes their ids from the
\* tombstone-id sets, leaves live objects and counters unchanged, and returns
\* the number of tombstones removed.
C6_PurgeDeleted ==
    [][Called("purge_deleted")
        => LET a == ret'.args
               purged == Purged(db, a.collection_id, a.parent_id, a.before)
           IN  /\ ret'.exc = ""
               /\ ret'.val = Cardinality(purged)
               /\ \A scope \in Collections \X Parents :
                      /\ TombstoneIds(db', scope)
                             = {i \in TombstoneIds(db, scope) : <<scope, i>> \notin purged}
                      /\ \A i \in TombstoneIds(db, scope) :
                             IF <<scope, i>> \in purged
                             THEN DeletedRecordKey(scope[1], scope[2], i) \notin DOMAIN db'.kv
                             ELSE /\ DeletedRecordKey(scope[1], scope[2], i) \in DOMAIN db'.kv
                                  /\ Tombstone(db', scope, i) = Tombstone(db, scope, i)
                      /\ SMembers(db'.sets, RecordsKey(scope[1], scope[2]))
                             = SMembers(db.sets, RecordsKey(scope[1], scope[2]))
                      /\ CounterOf(db', TimestampKey(scope[1], scope[2]))
                             = CounterOf(db, TimestampKey(scope[1], scope[2]))
               /\ LiveKeys(db') = LiveKeys(db)
               /\ \A key \in LiveKeys(db) : db'.kv[key] = db.kv[key]]_vars

\* C6 witness: a purge with a bound has removed a tombstone and kept the one
\* stamped exactly at the bound.
C6_Witness ==
    /\ ret.op = "purge_deleted" /\ ret.exc = ""
    /\ ret.args.before # NoneInt
    /\ ret.val >= 1
    /\ \E scope \in Matching(ret.args.collection_id, ret.args.parent_id) :
           \E i \in TombstoneIds(db, scope) :
               Tombstone(db, scope, i)["last_modified"] = ret.args.before

\* The live objects of the scopes a call covers that pass its filters, as
\* <<collection, parent, id>> triples.
Candidates(d, collection_id, parent_id, filters) ==
    {<<scope[1], scope[2], i>> : <<scope, i>> \in
        {<<sc, j>> \in Matching(collection_id, parent_id) \X Ids :
            \E r \in Live(d, sc[1], sc[2], j) : filters = NoneInt \/ r["v"] < filters}}

\* C8: delete_all deletes live objects of the matching scopes that satisfy
\* the filters, all of them or as many as the limit allows, leaves every
\* other live object untouched, and returns one tombstone per deleted object
\* with its id and a timestamp greater than the object had.
C8_DeleteAll ==
    [][Called("delete_all")
        => LET a == ret'.args
               candidates == Candidates(db, a.collection_id, a.parent_id, a.filters)
               gone == {<<key[1], key[2], key[3]>> : key \in LiveKeys(db) \ LiveKeys(db')}
               page == a.page
           IN  /\ ret'.exc = ""
               /\ gone \subseteq candidates
               /\ Cardinality(gone) =
                      IF a.limit # NoneInt /\ a.limit < Cardinality(candidates)
                      THEN a.limit ELSE Cardinality(candidates)
               /\ LiveKeys(db') \subseteq LiveKeys(db)
               /\ \A key \in LiveKeys(db') : db'.kv[key] = db.kv[key]
               /\ Len(ret'.val) = Cardinality(gone)
               /\ gone = {<<page[n]["__collection_id__"], page[n]["__parent_id__"],
                            page[n]["id"]>> : n \in 1..Len(page)}
               /\ \A n \in 1..Len(ret'.val) :
                      /\ ret'.val[n]["id"] = page[n]["id"]
                      /\ ret'.val[n]["deleted"]
                      /\ \A old \in Live(db, page[n]["__collection_id__"],
                                         page[n]["__parent_id__"], page[n]["id"]) :
                             ret'.val[n]["last_modified"] > old["last_modified"]]_vars

\* C8 witness: a delete_all over every collection of the parent has deleted
\* objects of two collections and left one that the filter rejects.
C8_Witness ==
    /\ ret.op = "delete_all" /\ ret.exc = ""
    /\ ret.args.collection_id = NoneText
    /\ ret.args.filters # NoneInt
    /\ \E m, n \in 1..Len(ret.args.page) :
           ret.args.page[m]["__collection_id__"] # ret.args.page[n]["__collection_id__"]
    /\ LiveKeys(db) # {}

-----------------------------------------------------------------------------
(* SpecConc: bump_and_store_timestamp one Redis command at a time, several *)
(* callers racing on the counter of one scope.                             *)

ConcKey == TimestampKey("c1", "p1")

\* Variant of WatchHolds for a pipeline that never raises WatchError.
WatchHolds_always(p, key) == TRUE

\* Variant of WatchHolds for a pipeline that always raises WatchError.
WatchHolds_never(p, key) == FALSE

\* EXEC succeeds when no key WATCHed by the caller was written since.
WatchHolds(p, key) == key \in watched[p]

\* A caller enters bump_and_store_timestamp, without a timestamp of its own
\* or with the earliest one, which the counter soon passes.
BumpCall(p) ==
    /\ pc[p] = "idle"
    /\ \E last_modified \in {NoneInt, 1} :
           frame' = [frame EXCEPT ![p] = [last_modified |-> last_modified,
                                          previous |-> NoneInt, retried |-> FALSE]]
    /\ pc' = [pc EXCEPT ![p] = "watch"]
    /\ UNCHANGED <<db, ret, gen, readonly, watched, issued, perm>>

\* pipe.watch(key); seen remembers the counter the key held at that moment.
BumpWatch(p) ==
    /\ pc[p] = "watch"
    /\ watched' = [watched EXCEPT ![p] = {ConcKey}]
    /\ frame' = [frame EXCEPT ![p] = [last_modified |-> @.last_modified,
                                      previous |-> @.previous,
                                      retried |-> @.retried,
                                      seen |-> CounterOf(db, ConcKey)]]
    /\ pc' = [pc EXCEPT ![p] = "get"]
    /\ UNCHANGED <<db, ret, gen, readonly, issued, perm>>

\* previous = pipe.get(key)
BumpGet(p) ==
    /\ pc[p] = "get"
    /\ frame' = [frame EXCEPT ![p].previous = CounterOf(db, ConcKey)]
    /\ pc' = [pc EXCEPT ![p] = "execute"]
    /\ UNCHANGED <<db, ret, gen, readonly, watched, issued, perm>>

\* bump_timestamp, pipe.multi(), pipe.set(key, collection_timestamp),
\* pipe.execute(), return current; the clock reads one of times.
BumpExecute(p, times) ==
    /\ pc[p] = "execute"
    /\ WatchHolds(p, ConcKey)
    /\ \E now \in times :
         LET bumped == bump_timestamp(frame[p].previous, NoRecord, "last_modified",
                                      frame[p].last_modified, now)
         IN  /\ bumped[2] <= MaxTs
             /\ db' = [db EXCEPT !.kv = KvSet(db.kv, ConcKey, bumped[2])]
             /\ issued' = [before |-> Max({issued.before, issued.last.val}),
                           last |-> [val |-> bumped[1],
                                     last_modified |-> frame[p].last_modified,
                                     retried |-> frame[p].retried]]
    /\ watched' = [q \in Procs |-> IF q = p THEN {} ELSE watched[q] \ {ConcKey}]
    /\ pc' = [pc EXCEPT ![p] = "idle"]
    /\ frame' = [frame EXCEPT ![p] = <<>>]
    /\ UNCHANGED <<ret, gen, readonly, perm>>

\* except redis.WatchError: continue
BumpWatchError(p) ==
    /\ pc[p] = "execute"
    /\ ~WatchHolds(p, ConcKey)
    /\ watched' = [watched EXCEPT ![p] = {}]
    /\ frame' = [frame EXCEPT ![p].retried = TRUE]
    /\ pc' = [pc EXCEPT ![p] = "watch"]
    /\ UNCHANGED <<db, ret, gen, readonly, issued, perm>>

NextConc ==
    \E p \in Procs :
        \/ BumpCall(p)
        \/ BumpWatch(p)
        \/ BumpGet(p)
        \/ BumpExecute(p, Clock)
        \/ BumpWatchError(p)

SpecConc == Init /\ [][NextConc]_vars

\* C1 as stated: the values returned by the calls of bump_and_store_timestamp
\* on a scope are strictly increasing, racing callers included: no two calls
\* return the same value. (Each return is above every return before it.)
C1_Original ==
    issued.last.val # 0 => issued.last.val > issued.before

\* C1 amended: a call of bump_and_store_timestamp that is given no timestamp
\* by its caller returns a value strictly greater than every value returned
\* before it on the scope, racing callers included; the stored counter is
\* never below a value returned.
C1_BumpIncreasing ==
    /\ (issued.last.val # 0 /\ issued.last.last_modified = NoneInt)
           => issued.last.val > issued.before
    /\ issued.last.val <= CounterOf(db, ConcKey)
    /\ issued.before <= CounterOf(db, ConcKey)

\* C1 witness: a caller without a timestamp of its own lost a race, retried
\* and returned after another caller.
C1_Witness ==
    /\ issued.last.retried
    /\ issued.last.last_modified = NoneInt
    /\ issued.before >= 1

\* SpecLive: finitely many calls of bump_and_store_timestamp on one scope,
\* every caller that is inside the loop going on running.

\* The clock readings for which NumProcs bumps stay within MaxTs.
LiveClock == 1..(MaxTs - NumProcs + 1)

\* A caller enters bump_and_store_timestamp; gen counts the calls made (no id
\* is generated here), of which there are NumProcs at most.
BumpCallCounted(p) ==
    /\ pc[p] = "idle"
    /\ gen < NumProcs
    /\ gen' = gen + 1
    /\ \E last_modified \in {NoneInt, 1} :
           frame' = [frame EXCEPT ![p] = [last_modified |-> last_modified,
                                          previous |-> NoneInt, retried |-> FALSE]]
    /\ pc' = [pc EXCEPT ![p] = "watch"]
    /\ UNCHANGED <<db, ret, readonly, watched, issued, perm>>

\* The next command of caller p inside the loop.
BumpRuns(p) ==
    \/ BumpWatch(p)
    \/ BumpGet(p)
    \/ BumpExecute(p, LiveClock)
    \/ BumpWatchError(p)

NextLive ==
    \E p \in Procs :
        \/ BumpCallCounted(p)
        \/ BumpRuns(p)

SpecLive == Init /\ [][NextLive]_vars /\ \A p \in Procs : WF_vars(BumpRuns(p))

\* C21: the bump loop commits only if the counter key was not changed since
\* the caller read it, and otherwise starts over; a caller's commit is
\* rejected only after another caller's commit has succeeded since its WATCH;
\* with finitely many calls and callers that keep running, every call returns.
C21_BumpLoop ==
    /\ [][\A p \in Procs :
            /\ (pc[p] = "execute" /\ pc'[p] = "idle")
                   => /\ CounterOf(db, ConcKey) = frame[p].previous
                      /\ CounterOf(db', ConcKey) > CounterOf(db, ConcKey)
            /\ (pc[p] = "execute" /\ pc'[p] = "watch")
                   => /\ CounterOf(db, ConcKey) > frame[p].seen
                      /\ db' = db]_vars
    /\ \A p \in Procs : (pc[p] # "idle") ~> (pc[p] = "idle")

\* C21 witness: every call has been made and has returned, the last one after
\* its commit was rejected once.
C21_Witness ==
    /\ gen = NumProcs
    /\ \A p \in Procs : pc[p] = "idle"
    /\ issued.last.retried
    /\ CounterOf(db, ConcKey) >= NumProcs

-----------------------------------------------------------------------------
(* SpecPerm: the principals of the permission backend one Redis command at *)
(* a time, with a Redis client that may raise redis.RedisError on any      *)
(* command.                                                                *)

Users == {"alice", "system.Authenticated"}

Principals == {"g1", "g2"}

\* 'user:%s' % user_id
UserKey(user_id) == <<"user", user_id>>

\* A command of the Redis client raises redis.RedisError.
RedisError == [db |-> <<>>, exc |-> "RedisError", val |-> "RedisError"]

\* The value a call returns when it returns nothing.
Done == [db |-> <<>>, exc |-> "", val |-> "None"]

\* except redis.RedisError as e: raise exceptions.BackendError(original=e)
wrap_redis_error(outcome) ==
    IF outcome.exc = "RedisError"
    THEN [outcome EXCEPT !.exc = "BackendError", !.val = outcome.exc]
    ELSE outcome

\* The call of caller p ends with outcome.
Ends(p, name, arguments, outcome) ==
    /\ ret.op = "none"
    /\ ret' = Completed(name, arguments, outcome)
    /\ pc' = [pc EXCEPT ![p] = "idle"]
    /\ frame' = [frame EXCEPT ![p] = <<>>]

\* The call of caller p goes on at label with locals.
GoesOn(p, label, locals) ==
    /\ pc' = [pc EXCEPT ![p] = label]
    /\ frame' = [frame EXCEPT ![p] = locals]
    /\ UNCHANGED ret

add_user_principal(p) ==
    /\ pc[p] = "idle"
    /\ \E user_id \in Users, principal \in Principals :
         LET a == [user_id |-> user_id, principal |-> principal]
         IN  \/ /\ perm' = SAdd(perm, UserKey(user_id), principal)
                /\ Ends(p, "add_user_principal", a, wrap_redis_error(Done))
             \/ /\ UNCHANGED perm
                /\ Ends(p, "add_user_principal", a, wrap_redis_error(RedisError))
    /\ UNCHANGED <<db, gen, readonly, watched, issued>>

\* self._client.srem(user_key, principal)
remove_user_principal_srem(p) ==
    /\ pc[p] = "idle"
    /\ \E user_id \in Users, principal \in Principals :
         LET a == [user_id |-> user_id, principal |-> principal]
         IN  \/ /\ perm' = SRem(perm, UserKey(user_id), {principal})
                /\ GoesOn(p, "scard", a)
             \/ /\ UNCHANGED perm
                /\ Ends(p, "remove_user_principal", a, wrap_redis_error(RedisError))
    /\ UNCHANGED <<db, gen, readonly, watched, issued>>

\* if self._client.scard(user_key) == 0:
remove_user_principal_scard(p) ==
    /\ pc[p] = "scard"
    /\ \/ /\ Cardinality(SMembers(perm, UserKey(frame[p].user_id))) = 0
          /\ GoesOn(p, "delete", frame[p])
       \/ /\ Cardinality(SMembers(perm, UserKey(frame[p].user_id))) # 0
          /\ Ends(p, "remove_user_principal", frame[p], wrap_redis_error(Done))
       \/ Ends(p, "remove_user_principal", frame[p], wrap_redis_error(RedisError))
    /\ UNCHANGED <<db, gen, readonly, watched, issued, perm>>

\* self._client.delete(user_key)
remove_user_principal_delete(p) ==
    /\ pc[p] = "delete"
    /\ \/ /\ perm' = [key \in DOMAIN perm \ {UserKey(frame[p].user_id)} |-> perm[key]]
          /\ Ends(p, "remove_user_principal", frame[p], wrap_redis_error(Done))
       \/ /\ UNCHANGED perm
          /\ Ends(p, "remove_user_principal", frame[p], wrap_redis_error(RedisError))
    /\ UNCHANGED <<db, gen, readonly, watched, issued>>

\* user_keys = self._client.scan_iter(match='user:*'), pipe.srem queued for
\* each; the method is not decorated with wrap_redis_error.
remove_principal_scan(p) ==
    /\ pc[p] = "idle"
    /\ \E principal \in Principals :
         \/ GoesOn(p, "execute",
                   [principal |-> principal,
                    user_keys |-> {key \in DOMAIN perm : key[1] = "user"}])
         \/ Ends(p, "remove_principal", [principal |-> principal], RedisError)
    /\ UNCHANGED <<db, gen, readonly, watched, issued, perm>>

\* pipe.execute(): the queued SREMs in one MULTI/EXEC
remove_principal_execute(p) ==
    /\ pc[p] = "execute"
    /\ LET a == [principal |-> frame[p].principal]
           emptied == {key \in frame[p].user_keys :
                          SMembers(perm, key) \ {frame[p].principal} = {}}
       IN  \/ /\ perm' = [key \in DOMAIN perm \ emptied |->
                             IF key \in frame[p].user_keys
                             THEN perm[key] \ {frame[p].principal} ELSE perm[key]]
              /\ Ends(p, "remove_principal", a, Done)
           \/ /\ UNCHANGED perm
              /\ Ends(p, "remove_principal", a, RedisError)
    /\ UNCHANGED <<db, gen, readonly, watched, issued>>

\* members = self._decode_set(self._client.smembers(user_key))
get_user_principals_members(p) ==
    /\ pc[p] = "idle"
    /\ \E user_id \in Users :
         \/ GoesOn(p, "authenticated",
                   [user_id |-> user_id, members |-> SMembers(perm, UserKey(user_id))])
         \/ Ends(p, "get_user_principals", [user_id |-> user_id],
                 wrap_redis_error(RedisError))
    /\ UNCHANGED <<db, gen, readonly, watched, issued, perm>>

\* group_authenticated = ...smembers('user:system.Authenticated');
\* return members | group_authenticated
get_user_principals_authenticated(p) ==
    /\ pc[p] = "authenticated"
    /\ LET a == [user_id |-> frame[p].user_id]
           group_authenticated == SMembers(perm, UserKey("system.Authenticated"))
       IN  \/ Ends(p, "get_user_principals", a,
                   wrap_redis_error([Done EXCEPT !.val =
                                        frame[p].members \cup group_authenticated]))
           \/ Ends(p, "get_user_principals", a, wrap_redis_error(RedisError))
    /\ UNCHANGED <<db, gen, readonly, watched, issued, perm>>

\* A public method of Storage whose first Redis command raises.
StorageCallFails(p) ==
    /\ pc[p] = "idle"
    /\ \E method \in {"collection_timestamp", "bump_and_store_timestamp", "create",
                      "get", "update", "delete", "purge_deleted", "get_all",
                      "delete_all"} :
           Ends(p, method, <<>>, wrap_redis_error(RedisError))
    /\ UNCHANGED <<db, gen, readonly, watched, issued, perm>>

NextPerm ==
    \/ \E p \in Procs :
           \/ add_user_principal(p)
           \/ remove_user_principal_srem(p)
           \/ remove_user_principal_scard(p)
           \/ remove_user_principal_delete(p)
           \/ remove_principal_scan(p)
           \/ remove_principal_execute(p)
           \/ get_user_principals_members(p)
           \/ get_user_principals_authenticated(p)
           \/ StorageCallFails(p)
    \/ Return

SpecPerm == Init /\ [][NextPerm]_vars

\* C9: in every public method of the object store and of the permission
\* backend, remove_principal included, an error raised by the Redis client
\* reaches the caller as BackendError carrying the original error, never as
\* an error type of the client.
C9_Original ==
    (ret.op # "none" /\ ret.exc # "")
        => (ret.exc = "BackendError" /\ ret.val = "RedisError")

-----------------------------------------------------------------------------
(* The permission backend, each public method run to completion on a       *)
(* permission database d (key -> set of members).  An object id 'a/b' is   *)
(* the tuple of its '/'-separated segments <<"a","b">>.                    *)

AclObjects == {<<"b1">>, <<"b1", "c1">>}

Permissions == {"read", "write"}

\* 'permission:%s:%s' % (object_id, permission)
PermissionKey(object_id, permission) == <<"permission", object_id, permission>>

\* scan_iter(match='permission:%s:%s' % (object_pattern, permission_pattern)):
\* the glob is matched on the object id segment-wise ('*' running over
\* slashes) and on the permission name, where '*' matches any name.
ScanPermissions(d, object_pattern, permission_pattern) ==
    {key \in DOMAIN d :
        /\ key[1] = "permission"
        /\ GlobMatch(object_pattern, key[2])
        /\ permission_pattern = "*" \/ permission_pattern = key[3]}

\* DEL of keys of the set keyspace
Del(d, keys) == [key \in DOMAIN d \ keys |-> d[key]]

\* Variant of remove_principal_from_ace that skips the SREM.
remove_principal_from_ace_kept(d, object_id, permission, principal) ==
    LET permission_key == PermissionKey(object_id, permission)
    IN  Ok(IF Cardinality(SMembers(d, permission_key)) = 0
           THEN Del(d, {permission_key}) ELSE d,
           "None")

\* The queued SREMs of remove_principal, one per key the scan returned.
RECURSIVE SRemEach(_, _, _)
SRemEach(d, keys, member) ==
    IF keys = {} THEN d
    ELSE LET key == CHOOSE k \in keys : TRUE
         IN  SRemEach(SRem(d, key, {member}), keys \ {key}, member)

\* Variant of remove_principal_db that queues the SREM of one user key only.
remove_principal_db_one(d, principal) ==
    LET user_keys == {key \in DOMAIN d : key[1] = "user"}
        first     == IF user_keys = {} THEN {} ELSE {CHOOSE key \in user_keys : TRUE}
    IN  Ok(SRemEach(d, first, principal), "None")

remove_principal_db(d, principal) ==
    LET user_keys == {key \in DOMAIN d : key[1] = "user"}
    IN  Ok(SRemEach(d, user_keys, principal), "None")

add_principal_to_ace(d, object_id, permission, principal) ==
    Ok(SAdd(d, PermissionKey(object_id, permission), principal), "None")

remove_principal_from_ace(d, object_id, permission, principal) ==
    LET permission_key == PermissionKey(object_id, permission)
        removed        == SRem(d, permission_key, {principal})
    IN  Ok(IF Cardinality(SMembers(removed, permission_key)) = 0
           THEN Del(removed, {permission_key}) ELSE removed,
           "None")

get_object_permission_principals(d, object_id, permission) ==
    Ok(d, SMembers(d, PermissionKey(object_id, permission)))

\* SADD key member [member ...] with at least one member
SAddAll(sets, key, members) ==
    [k \in DOMAIN sets \cup {key} |->
        IF k = key THEN SMembers(sets, key) \cup members ELSE sets[k]]

\* Variant of ReplaceEach whose pipeline queues no DEL.
RECURSIVE ReplaceEach_adding(_, _, _, _)
ReplaceEach_adding(d, object_id, permissions, names) ==
    IF names = {} THEN d
    ELSE LET permission == CHOOSE n \in names : TRUE
             key        == PermissionKey(object_id, permission)
             principals == permissions[permission]
             added      == IF Cardinality(principals) > 0
                           THEN SAddAll(d, key, principals) ELSE d
         IN  ReplaceEach_adding(added, object_id, permissions, names \ {permission})

\* The commands replace_object_permissions queues, key by key: DEL, then
\* SADD of the principals when there are some.
RECURSIVE ReplaceEach(_, _, _, _)
ReplaceEach(d, object_id, permissions, names) ==
    IF names = {} THEN d
    ELSE LET permission == CHOOSE n \in names : TRUE
             key        == PermissionKey(object_id, permission)
             principals == permissions[permission]
             deleted    == Del(d, {key})
             added      == IF Cardinality(principals) > 0
                           THEN SAddAll(deleted, key, principals) ELSE deleted
         IN  ReplaceEach(added, object_id, permissions, names \ {permission})

\* permissions is a dict: permission name -> principals. The queued commands
\* run in one MULTI/EXEC.
replace_object_permissions(d, object_id, permissions) ==
    Ok(ReplaceEach(d, object_id, permissions, DOMAIN permissions), "None")

\* Variant of delete_object_permissions that executes the DEL of the first
\* object only.
delete_object_permissions_first(d, object_id_list) ==
    Ok(Del(d, UNION {ScanPermissions(d, object_id_list[n], "*") :
                        n \in {m \in 1..Len(object_id_list) : m = 1}}),
       "None")

\* The scans read the database before the queued DELs run.
delete_object_permissions(d, object_id_list) ==
    Ok(Del(d, UNION {ScanPermissions(d, object_id_list[n], "*") :
                        n \in 1..Len(object_id_list)}),
       "None")

\* Variant of filter_by_regexp that keeps every key.
filter_by_regexp_none(keys, regexps) == keys

\* re.compile(k.replace('*', '[^/]+')).match(key): every '*' of the bound
\* object pattern stands for one segment without '/'. The match is anchored
\* at the start of the key only; no permission name used here is a prefix of
\* another one.
filter_by_regexp(keys, regexps) ==
    {key \in keys :
        regexps = {} \/ \E r \in regexps :
                           /\ Len(r[1]) = Len(key[2])
                           /\ \A n \in 1..Len(r[1]) : r[1][n] = "*" \/ r[1][n] = key[2][n]
                           /\ r[2] = key[3]}

\* bound_permissions is a list of (object pattern, permission) pairs; an empty
\* list and None are the same to the code. The result maps object ids to
\* permission names.
get_accessible_objects(d, principals, bound_permissions, with_children) ==
    LET bounds  == {bound_permissions[n] : n \in 1..Len(bound_permissions)}
        keys    == IF Len(bound_permissions) > 0 THEN bounds ELSE {<<<<"*">>, "*">>}
        regexps == IF Len(bound_permissions) > 0 THEN bounds ELSE {}
        matching_keys(key_pattern) ==
            LET scanned == ScanPermissions(d, key_pattern[1], key_pattern[2])
            IN  IF ~with_children THEN filter_by_regexp(scanned, regexps) ELSE scanned
        granted == {key \in UNION {matching_keys(key_pattern) : key_pattern \in keys} :
                        Cardinality(d[key] \cap principals) > 0}
        perms_by_id == [obj_id \in {key[2] : key \in granted} |->
                            {key[3] : key \in {k \in granted : k[2] = obj_id}}]
    IN  Ok(d, perms_by_id)

\* The loop of get_objects_permissions over the object ids. permissions holds
\* the names the current object is queried with: the loop body rebinds the
\* variable `permissions` to the mapping it has just built, and the next
\* iteration tests and iterates that mapping (its keys) in place of the
\* argument. An empty set stands for None, an empty list or an empty dict,
\* which `if permissions:` does not tell apart.
RECURSIVE ObjectsPerms(_, _, _)
ObjectsPerms(d, objects_ids, permissions) ==
    IF objects_ids = <<>> THEN <<>>
    ELSE LET object_id == Head(objects_ids)
             keys      == IF permissions # {}
                          THEN {PermissionKey(object_id, permission) :
                                    permission \in permissions}
                          ELSE ScanPermissions(d, object_id, "*")
             found     == {key \in keys : SMembers(d, key) # {}}
             mapping   == [permission \in {key[3] : key \in found} |->
                              SMembers(d, PermissionKey(object_id, permission))]
         IN  <<mapping>> \o ObjectsPerms(d, Tail(objects_ids), DOMAIN mapping)

get_objects_permissions(d, objects_ids, permissions) ==
    Ok(d, ObjectsPerms(d, objects_ids, permissions))

\* A call on the permission backend completes with outcome r.
PermReturns(name, arguments, r) ==
    /\ ret.op = "none"
    /\ perm' = r.db
    /\ ret' = Completed(name, arguments, wrap_redis_error(r))
    /\ UNCHANGED <<db, gen, readonly, pc, frame, watched, issued>>

CallAddUserPrincipal(users) ==
    \E user_id \in users, principal \in Principals :
        PermReturns("add_user_principal", [user_id |-> user_id, principal |-> principal],
                    Ok(SAdd(perm, UserKey(user_id), principal), "None"))

CallRemoveUserPrincipal(users) ==
    \E user_id \in users, principal \in Principals :
        LET user_key == UserKey(user_id)
            removed  == SRem(perm, user_key, {principal})
        IN  PermReturns("remove_user_principal",
                        [user_id |-> user_id, principal |-> principal],
                        Ok(IF Cardinality(SMembers(removed, user_key)) = 0
                           THEN Del(removed, {user_key}) ELSE removed,
                           "None"))

\* remove_principal is not decorated with wrap_redis_error.
CallRemovePrincipal ==
    \E principal \in Principals :
        /\ ret.op = "none"
        /\ perm' = remove_principal_db(perm, principal).db
        /\ ret' = Completed("remove_principal", [principal |-> principal],
                            remove_principal_db(perm, principal))
        /\ UNCHANGED <<db, gen, readonly, pc, frame, watched, issued>>

CallGetUserPrincipals(users) ==
    \E user_id \in users :
        PermReturns("get_user_principals", [user_id |-> user_id],
                    Ok(perm, SMembers(perm, UserKey(user_id))
                                 \cup SMembers(perm, UserKey("system.Authenticated"))))

CallAddPrincipalToAce ==
    \E object_id \in AclObjects, permission \in Permissions, principal \in Principals :
        PermReturns("add_principal_to_ace",
                    [object_id |-> object_id, permission |-> permission,
                     principal |-> principal],
                    add_principal_to_ace(perm, object_id, permission, principal))

CallRemovePrincipalFromAce ==
    \E object_id \in AclObjects, permission \in Permissions, principal \in Principals :
        PermReturns("remove_principal_from_ace",
                    [object_id |-> object_id, permission |-> permission,
                     principal |-> principal],
                    remove_principal_from_ace(perm, object_id, permission, principal))

CallGetObjectPermissionPrincipals ==
    \E object_id \in AclObjects, permission \in Permissions :
        PermReturns("get_object_permission_principals",
                    [object_id |-> object_id, permission |-> permission],
                    get_object_permission_principals(perm, object_id, permission))

\* The lists of object ids callers pass: none, one or two objects.
ObjectLists ==
    {<<>>} \cup {<<o>> : o \in AclObjects} \cup {<<o1, o2>> : o1 \in AclObjects, o2 \in AclObjects}

\* The bound permissions callers pass: none, one pair whose object pattern is
\* any object, one object or the children of one object, or two pairs.
BoundPermissions ==
    {<<>>} \cup {<<<<o, p>>>> : o \in {<<"*">>, <<"b1">>, <<"b1", "*">>}, p \in Permissions}
           \cup {<<<<<<"b1">>, p>>, <<<<"b1", "*">>, "read">>>> : p \in Permissions}

CallGetAccessibleObjects ==
    \E principals \in {{"g1"}, Principals}, bound_permissions \in BoundPermissions,
       with_children \in BOOLEAN :
        PermReturns("get_accessible_objects",
                    [principals |-> principals, bound_permissions |-> bound_permissions,
                     with_children |-> with_children],
                    get_accessible_objects(perm, principals, bound_permissions,
                                           with_children))

CallGetObjectsPermissions ==
    \E objects_ids \in ObjectLists, permissions \in SUBSET Permissions :
        PermReturns("get_objects_permissions",
                    [objects_ids |-> objects_ids, permissions |-> permissions],
                    get_objects_permissions(perm, objects_ids, permissions))

CallReplaceObjectPermissions ==
    \E object_id \in AclObjects, permissions \in UNION {[names -> SUBSET Principals] : names \in SUBSET Permissions} :
        PermReturns("replace_object_permissions",
                    [object_id |-> object_id, permissions |-> permissions],
                    replace_object_permissions(perm, object_id, permissions))

CallDeleteObjectPermissions ==
    \E object_id_list \in ObjectLists :
        PermReturns("delete_object_permissions",
                    [object_id_list |-> object_id_list],
                    delete_object_permissions(perm, object_id_list))

-----------------------------------------------------------------------------
(* SpecAcl: the permission backend with one user, calls running one at a   *)
(* time.  SpecUsers: the principals of two users, calls one at a time.     *)

NextAcl ==
    \/ CallAddUserPrincipal({"alice"})
    \/ CallRemoveUserPrincipal({"alice"})
    \/ CallRemovePrincipal
    \/ CallAddPrincipalToAce
    \/ CallRemovePrincipalFromAce
    \/ CallGetAccessibleObjects
    \/ CallGetObjectsPermissions
    \/ CallReplaceObjectPermissions
    \/ CallDeleteObjectPermissions
    \/ CallGetObjectPermissionPrincipals
    \/ Return

SpecAcl == Init /\ [][NextAcl]_vars

NextUsers ==
    \/ CallAddUserPrincipal(Users)
    \/ CallRemoveUserPrincipal(Users)
    \/ CallRemovePrincipal
    \/ CallGetUserPrincipals(Users)
    \/ Return

SpecUsers == Init /\ [][NextUsers]_vars

-----------------------------------------------------------------------------
(* Properties of the permission backend *)

\* The permission key the call in r is about.
AceKey(r) == PermissionKey(r.args.object_id, r.args.permission)

\* Every key but those of keys holds in d2 what it holds in d1.
SameBut(d1, d2, keys) ==
    /\ DOMAIN d1 \ keys = DOMAIN d2 \ keys
    /\ \A key \in DOMAIN d1 \ keys : d1[key] = d2[key]

\* C11: after add_principal_to_ace(obj, perm, p) the principals of (obj, perm)
\* contain p; after remove_principal_from_ace(obj, perm, p) they do not, the
\* other principals of the key are unchanged, and when p was the last one the
\* key no longer exists. Other keys are left alone.
C11_AceAddRemove ==
    [][ret.op = "none"
        => /\ ret'.op = "add_principal_to_ace"
              => /\ get_object_permission_principals(
                        perm', ret'.args.object_id, ret'.args.permission).val
                        = SMembers(perm, AceKey(ret')) \cup {ret'.args.principal}
                 /\ SameBut(perm, perm', {AceKey(ret')})
           /\ ret'.op = "remove_principal_from_ace"
              => /\ get_object_permission_principals(
                        perm', ret'.args.object_id, ret'.args.permission).val
                        = SMembers(perm, AceKey(ret')) \ {ret'.args.principal}
                 /\ SMembers(perm, AceKey(ret')) \subseteq {ret'.args.principal}
                        => AceKey(ret') \notin DOMAIN perm'
                 /\ AceKey(ret') \in DOMAIN perm' => perm'[AceKey(ret')] # {}
                 /\ SameBut(perm, perm', {AceKey(ret')})]_vars

\* C11 witness: the last principal of a permission has been removed and the
\* key is gone, while the other permission of the object keeps its principals.
C11_Witness ==
    /\ ret.op = "remove_principal_from_ace"
    /\ AceKey(ret) \notin DOMAIN perm
    /\ \E permission \in Permissions \ {ret.args.permission} :
           Cardinality(SMembers(perm, PermissionKey(ret.args.object_id, permission))) = 2

C15_ReplaceObjectPermissions ==
    [][Called("replace_object_permissions")
        => LET a == ret'.args
               named == {PermissionKey(a.object_id, n) : n \in DOMAIN a.permissions}
           IN  /\ \A n \in DOMAIN a.permissions :
                      /\ SMembers(perm', PermissionKey(a.object_id, n)) = a.permissions[n]
                      /\ a.permissions[n] = {}
                             => PermissionKey(a.object_id, n) \notin DOMAIN perm'
               /\ SameBut(perm, perm', named)]_vars

\* C15 witness: a replace has shrunk one permission, emptied another, and
\* left the permissions of the other object in place.
C15_Witness ==
    /\ ret.op = "replace_object_permissions"
    /\ DOMAIN ret.args.permissions = Permissions
    /\ ret.args.permissions["read"] = {}
    /\ Cardinality(ret.args.permissions["write"]) = 1
    /\ PermissionKey(ret.args.object_id, "read") \notin DOMAIN perm
    /\ \E object_id \in AclObjects \ {ret.args.object_id} :
           PermissionKey(object_id, "read") \in DOMAIN perm

\* C16: after delete_object_permissions(o1, ..., on) no permission key of a
\* listed object exists, and every key of an object not listed is unchanged;
\* with an empty list nothing changes.
C16_DeleteObjectPermissions ==
    [][Called("delete_object_permissions")
        => LET listed == {ret'.args.object_id_list[n] :
                             n \in 1..Len(ret'.args.object_id_list)}
               theirs == {key \in DOMAIN perm : key[1] = "permission" /\ key[2] \in listed}
           IN  /\ \A key \in DOMAIN perm' : ~(key[1] = "permission" /\ key[2] \in listed)
               /\ SameBut(perm, perm', theirs)
               /\ \A o \in listed :
                      get_objects_permissions(perm', <<o>>, {}).val = << <<>> >>
               /\ listed = {} => perm' = perm]_vars

\* C16 witness: the permissions of two listed objects have been deleted while
\* a user key stays.
C16_Witness ==
    /\ ret.op = "delete_object_permissions"
    /\ Len(ret.args.object_id_list) = 2
    /\ ret.args.object_id_list[1] # ret.args.object_id_list[2]
    /\ DOMAIN perm = {UserKey("alice")}

\* The permission keys of the store.
PermissionKeys == {key \in DOMAIN perm : key[1] = "permission"}

\* A '*' of the pattern stands for exactly one segment of the object id.
OneSegmentEach(pattern, object_id) ==
    /\ Len(pattern) = Len(object_id)
    /\ \A n \in 1..Len(pattern) : pattern[n] \in {"*", object_id[n]}

\* The keys get_accessible_objects is to report for the arguments a.
Accessible(a) ==
    LET bounds == {a.bound_permissions[n] : n \in 1..Len(a.bound_permissions)}
    IN  {key \in PermissionKeys :
            /\ perm[key] \cap a.principals # {}
            /\ \/ bounds = {}
               \/ \E b \in bounds :
                      /\ b[2] = key[3]
                      /\ IF a.with_children THEN GlobMatch(b[1], key[2])
                                            ELSE OneSegmentEach(b[1], key[2])}

\* C13: get_accessible_objects(principals, bound_permissions, with_children)
\* returns the mapping from object id to the permission names whose principal
\* set intersects the query principals, among the keys matching some bound
\* (object pattern, permission) pair (among all keys when no bound is given).
\* With with_children false every '*' of a bound pattern stands for one
\* slash-free segment, so descendants are left out; with with_children true the
\* descendants matched by the glob scan are included.
C13_GetAccessibleObjects ==
    [][Called("get_accessible_objects")
        => LET a == ret'.args
               expected == Accessible(a)
           IN  /\ perm' = perm
               /\ ret'.exc = ""
               /\ DOMAIN ret'.val = {key[2] : key \in expected}
               /\ \A obj_id \in DOMAIN ret'.val :
                      ret'.val[obj_id] = {key[3] : key \in {k \in expected : k[2] = obj_id}}]_vars

\* C13 witness: with the bound ('*', 'read') and children suppressed only b1
\* is returned, while b1/c1 grants read to the same principal.
C13_Witness ==
    /\ ret.op = "get_accessible_objects"
    /\ ret.args.bound_permissions = <<<<<<"*">>, "read">>>>
    /\ ~ret.args.with_children
    /\ ret.args.principals = {"g1"}
    /\ "g1" \in SMembers(perm, PermissionKey(<<"b1", "c1">>, "read"))
    /\ "g1" \in SMembers(perm, PermissionKey(<<"b1">>, "write"))
    /\ DOMAIN ret.val = {<<"b1">>}
    /\ ret.val[<<"b1">>] = {"read"}

\* The mapping of one object: the requested permission names, or every
\* existing permission of the object when none is requested, whose principal
\* set is not empty, each with its principal set.
ObjectPermissions(object_id, requested) ==
    LET names == IF requested = {}
                 THEN {key[3] : key \in {k \in PermissionKeys : k[2] = object_id}}
                 ELSE requested
    IN  [permission \in {n \in names : SMembers(perm, PermissionKey(object_id, n)) # {}} |->
            SMembers(perm, PermissionKey(object_id, permission))]

\* C14: get_objects_permissions(object_ids, permissions) returns one mapping
\* per object id, in order, each holding exactly the requested permission
\* names (every existing permission when none is requested) whose principal
\* set is not empty, with the full principal set; the mapping of an object
\* does not depend on the ids that precede it.
C14_Original ==
    [][Called("get_objects_permissions")
        => /\ Len(ret'.val) = Len(ret'.args.objects_ids)
           /\ \A n \in 1..Len(ret'.val) :
                  ret'.val[n] = ObjectPermissions(ret'.args.objects_ids[n],
                                                  ret'.args.permissions)]_vars

\* C17: after remove_principal(p) no user's principal set contains p and every
\* other principal of every user is unchanged; a second remove_principal(p)
\* changes nothing.
C17_RemovePrincipal ==
    [][Called("remove_principal")
        => LET p == ret'.args.principal
           IN  /\ \A user \in Users :
                      SMembers(perm', UserKey(user)) = SMembers(perm, UserKey(user)) \ {p}
               /\ SameBut(perm, perm', {UserKey(user) : user \in Users})
               /\ remove_principal_db(perm', p).db = perm']_vars

\* C17 witness: the principal has been removed from two users, one of which
\* keeps another principal while the key of the other is gone.
C17_Witness ==
    /\ ret.op = "remove_principal"
    /\ ret.args.principal = "g1"
    /\ SMembers(perm, UserKey("alice")) = {"g2"}
    /\ UserKey("system.Authenticated") \notin DOMAIN perm

\* The live objects of a scope: the stored objects of the ids of its id set.
LiveOf(d, scope) ==
    UNION {Live(d, scope[1], scope[2], object_id) :
              object_id \in SMembers(d.sets, RecordsKey(scope[1], scope[2]))}

\* The tombstones of a scope: the stored tombstones of the ids of its
\* tombstone-id set.
TombstonesOf(d, scope) ==
    {Tombstone(d, scope, object_id) : object_id \in TombstoneIds(d, scope)}

\* C18: get_all(resource, parent, include_deleted) returns the live objects of
\* every scope matching the requested scope and, with include_deleted, also
\* the tombstones of every such scope, for a concrete resource and for the
\* wildcard resource alike; without include_deleted it returns no tombstone.
C18_Original ==
    [][Called("get_all")
        => LET a == ret'.args
               scopes == Matching(a.collection_id, a.parent_id)
           IN  ret'.val = UNION {LiveOf(db, scope) : scope \in scopes}
                          \cup (IF a.include_deleted
                                THEN UNION {TombstonesOf(db, scope) : scope \in scopes}
                                ELSE {})]_vars

\* C19: create and update store the encoded object, add the id to the live-id
\* set and remove it from the tombstone-id set in one step; so after a delete
\* of the id followed by a create or an update of it, the id is listed as live
\* and get_all with include_deleted lists the object and no tombstone for it.
C19_StoreResurrects ==
    [][(ret.op = "none" /\ ret'.op \in {"create", "update"} /\ ret'.exc = "")
        => LET a      == ret'.args
               _id    == ret'.val["id"]
               stored == RecordKey(a.collection_id, a.parent_id, _id)
           IN  /\ stored \in DOMAIN db'.kv
               /\ _decode(db'.kv[stored]) = ret'.val
               /\ _id \in SMembers(db'.sets, RecordsKey(a.collection_id, a.parent_id))
               /\ _id \notin SMembers(db'.sets, DeletedKey(a.collection_id, a.parent_id))
               /\ LET listed == get_all(db', a.collection_id, a.parent_id, NoneInt, TRUE)
                  IN  /\ ret'.val \in listed
                      /\ \A r \in listed : r["id"] = _id => ~HasField(r, "deleted")]_vars

\* C19 witness: an update has brought back an id deleted before: the value
\* of its tombstone is still stored, its id is in no tombstone-id set.
C19_Witness ==
    /\ ret.op = "update" /\ ret.exc = ""
    /\ DeletedRecordKey(ret.args.collection_id, ret.args.parent_id, ret.val["id"])
           \in DOMAIN db.kv
    /\ DeletedKey(ret.args.collection_id, ret.args.parent_id) \notin DOMAIN db.sets

-----------------------------------------------------------------------------
(* SpecSteps: delete one store call at a time, several callers, a caller   *)
(* possibly stopping between two store calls.                              *)

\* create, run without interleaving, by caller p.
create_call(p, records, times) ==
    /\ pc[p] = "idle"
    /\ \E record \in records, now \in times :
         LET a == [collection_id |-> "c1", parent_id |-> "p1", record |-> record]
             r == create(db, "c1", "p1", record, GeneratedId(gen + 1), now)
         IN  /\ WithinBounds(r.db)
             /\ db' = r.db
             /\ Ends(p, "create", a, r)
    /\ UNCHANGED <<gen, readonly, watched, issued, perm>>

\* The first pipeline of delete (GET, DEL, SREM), then
\* `if encoded_item is None: raise RecordNotFoundError`,
\* `existing = self._decode(encoded_item)`, `del existing[modified_field]`.
delete_remove(p, ids, flags) ==
    /\ pc[p] = "idle"
    /\ \E object_id \in ids, with_deleted \in flags :
         LET a == [collection_id |-> "c1", parent_id |-> "p1", object_id |-> object_id,
                   with_deleted |-> with_deleted, last_modified |-> NoneInt]
             record_key == RecordKey("c1", "p1", object_id)
         IN  /\ db' = RemovePipeline(db, "c1", "p1", object_id)
             /\ IF record_key \notin DOMAIN db.kv
                THEN Ends(p, "delete", a, Raise(db, "RecordNotFoundError", object_id))
                ELSE GoesOn(p, "set_record_timestamp",
                            [args |-> a,
                             existing |-> DelField(_decode(db.kv[record_key]),
                                                   "last_modified")])
    /\ UNCHANGED <<gen, readonly, watched, issued, perm>>

\* self.set_record_timestamp(...), strip_deleted_record(...), and the return
\* of the tombstone when with_deleted is false; the clock reads one of times.
delete_set_record_timestamp(p, times) ==
    /\ pc[p] = "set_record_timestamp"
    /\ \E now \in times :
         LET a       == frame[p].args
             stamped == set_record_timestamp(db, a.collection_id, a.parent_id,
                                             frame[p].existing, a.last_modified, now)
             tombstone == strip_deleted_record(stamped.val)
         IN  /\ WithinBounds(stamped.db)
             /\ db' = stamped.db
             /\ IF a.with_deleted
                THEN GoesOn(p, "tombstone", [args |-> a, existing |-> tombstone])
                ELSE Ends(p, "delete", a, Ok(stamped.db, tombstone))
    /\ UNCHANGED <<gen, readonly, watched, issued, perm>>

\* The second pipeline of delete (SET, SADD) and the return of the tombstone.
delete_tombstone(p) ==
    /\ pc[p] = "tombstone"
    /\ LET a == frame[p].args
       IN  /\ db' = TombstonePipeline(db, a.collection_id, a.parent_id, a.object_id,
                                      frame[p].existing)
           /\ Ends(p, "delete", a, Ok(db', frame[p].existing))
    /\ UNCHANGED <<gen, readonly, watched, issued, perm>>

\* The process of caller p stops between two store calls of delete; a new one
\* takes its place.
crash(p) ==
    /\ pc[p] \in {"set_record_timestamp", "tombstone"}
    /\ pc' = [pc EXCEPT ![p] = "idle"]
    /\ frame' = [frame EXCEPT ![p] = <<>>]
    /\ UNCHANGED <<db, ret, gen, readonly, watched, issued, perm>>

NextSteps ==
    \/ \E p \in Procs :
           \/ create_call(p, IdentifiedRecords, Clock)
           \/ delete_remove(p, IdsOf("c1"), BOOLEAN)
           \/ delete_set_record_timestamp(p, Clock)
           \/ delete_tombstone(p)
           \/ crash(p)
    \/ Return

SpecSteps == Init /\ [][NextSteps]_vars

\* C20: delete with with_deleted is one atomic unit: while a delete is under
\* way, whatever else runs and wherever the caller stops, a listing with
\* include_deleted shows the id, live or as a tombstone.
C20_Original ==
    \A p \in Procs :
        (pc[p] \in {"set_record_timestamp", "tombstone"} /\ frame[p].args.with_deleted)
            => \E r \in get_all_records(db, frame[p].args.collection_id,
                                        frame[p].args.parent_id, TRUE) :
                   r["id"] = frame[p].args.object_id

-----------------------------------------------------------------------------
(* create one store call at a time.  The timestamp bump is one step: its   *)
(* loop takes effect at its EXEC.                                          *)

\* record = ...; if id_field in record: existing = self.get(...), raise
\* UnicityError(id_field, existing) unless RecordNotFoundError.
create_get(p, records) ==
    /\ pc[p] = "idle"
    /\ \E record \in records :
         LET a        == [collection_id |-> "c1", parent_id |-> "p1", record |-> record]
             existing == get(db, "c1", "p1", record["id"])
         IN  IF existing.exc = ""
             THEN Ends(p, "create", a, Raise(db, "UnicityError", existing.val))
             ELSE GoesOn(p, "create_set_record_timestamp", [args |-> a, record |-> record])
    /\ UNCHANGED <<db, gen, readonly, watched, issued, perm>>

\* self.set_record_timestamp(collection_id, parent_id, record, ...); the clock
\* reads one of times.
create_set_record_timestamp(p, times) ==
    /\ pc[p] = "create_set_record_timestamp"
    /\ \E now \in times :
         LET a       == frame[p].args
             stamped == set_record_timestamp(db, a.collection_id, a.parent_id,
                                             frame[p].record, NoneInt, now)
         IN  /\ WithinBounds(stamped.db)
             /\ db' = stamped.db
             /\ GoesOn(p, "create_store", [args |-> a, record |-> stamped.val])
    /\ UNCHANGED <<gen, readonly, watched, issued, perm>>

\* The pipeline of create (SET, SADD, SREM) and the return of the record.
create_store(p) ==
    /\ pc[p] = "create_store"
    /\ LET a == frame[p].args
       IN  /\ db' = StorePipeline(db, a.collection_id, a.parent_id,
                                  frame[p].record["id"], frame[p].record)
           /\ Ends(p, "create", a, Ok(db', frame[p].record))
    /\ UNCHANGED <<gen, readonly, watched, issued, perm>>

\* C26: of two creates carrying the same id that run concurrently on a scope
\* where the id does not exist, at most one succeeds and the other fails with
\* UnicityError: a create that succeeds never replaces an object that a create
\* has stored.
C26_Original ==
    [][(ret.op = "none" /\ ret'.op = "create" /\ ret'.exc = "")
        => RecordKey(ret'.args.collection_id, ret'.args.parent_id, ret'.val["id"])
               \notin DOMAIN db.kv]_vars

-----------------------------------------------------------------------------
(* SpecRace: create, update and delete one store call at a time, several   *)
(* callers on one scope.                                                   *)

\* record[id_field] = object_id; self.set_record_timestamp(...)
update_set_record_timestamp(p, ids, records, times) ==
    /\ pc[p] = "idle"
    /\ \E object_id \in ids, record \in records, now \in times :
         LET a       == [collection_id |-> "c1", parent_id |-> "p1",
                         object_id |-> object_id, record |-> record]
             stamped == set_record_timestamp(db, "c1", "p1",
                                             SetField(record, "id", object_id),
                                             NoneInt, now)
         IN  /\ WithinBounds(stamped.db)
             /\ db' = stamped.db
             /\ GoesOn(p, "update_store", [args |-> a, record |-> stamped.val])
    /\ UNCHANGED <<gen, readonly, watched, issued, perm>>

\* The pipeline of update (SET, SADD, SREM) and the return of the record.
update_store(p) ==
    /\ pc[p] = "update_store"
    /\ LET a == frame[p].args
       IN  /\ db' = StorePipeline(db, a.collection_id, a.parent_id, a.object_id,
                                  frame[p].record)
           /\ Ends(p, "update", a, Ok(db', frame[p].record))
    /\ UNCHANGED <<gen, readonly, watched, issued, perm>>

NextRace ==
    \/ \E p \in Procs :
           \/ create_get(p, IdentifiedRecords)
           \/ create_set_record_timestamp(p, Clock)
           \/ create_store(p)
           \/ update_set_record_timestamp(p, IdsOf("c1"), PlainRecords, Clock)
           \/ update_store(p)
           \/ delete_remove(p, IdsOf("c1"), BOOLEAN)
           \/ delete_set_record_timestamp(p, Clock)
           \/ delete_tombstone(p)
    \/ Return

SpecRace == Init /\ [][NextRace]_vars

\* C25: in every state reached by interleaved creates, updates and deletes of
\* one id, the id is not a member of both the live-id set and the
\* tombstone-id set of its scope.
C25_Original ==
    \A c \in Collections, par \in Parents :
        SMembers(db.sets, RecordsKey(c, par)) \cap SMembers(db.sets, DeletedKey(c, par)) = {}

-----------------------------------------------------------------------------
(* SpecIndex: create, update, delete, delete_all and purge_deleted one     *)
(* store call at a time, several callers on one id of one scope, the clock *)
(* standing still.                                                         *)

\* delete_all: the scan and the SMEMBERS pipeline of _get_objects_by_parent_id
\* on the id set of the scope (a set not there yet reads as empty).
delete_all_smembers(p) ==
    /\ pc[p] = "idle"
    /\ LET a   == [collection_id |-> "c1", parent_id |-> "p1", with_deleted |-> TRUE]
           ids == SMembers(db.sets, RecordsKey("c1", "p1"))
       IN  IF Cardinality(ids) = 0
           THEN Ends(p, "delete_all", a, Ok(db, <<>>))
           ELSE GoesOn(p, "delete_all_mget", [args |-> a, ids |-> ids])
    /\ UNCHANGED <<db, gen, readonly, watched, issued, perm>>

\* delete_all: the MGET of _get_objects_by_parent_id with the meta fields, and
\* extract_record_set without filter or limit.
delete_all_mget(p) ==
    /\ pc[p] = "delete_all_mget"
    /\ LET a       == frame[p].args
           key     == RecordsKey(a.collection_id, a.parent_id)
           records == {SetField(SetField(r, "__collection_id__", key[1]),
                                "__parent_id__", key[2]) :
                          r \in MGetDecoded(db, key, frame[p].ids, "records")}
       IN  \E page \in extract_record_set(records, NoneInt, NoneInt) :
               IF page = <<>>
               THEN Ends(p, "delete_all", a, Ok(db, <<>>))
               ELSE GoesOn(p, "delete_all_remove",
                           [args |-> a, records |-> page, deleted |-> <<>>])
    /\ UNCHANGED <<db, gen, readonly, watched, issued, perm>>

\* delete_all: the first pipeline of the delete of the next record.
delete_all_remove(p) ==
    /\ pc[p] = "delete_all_remove"
    /\ LET a == frame[p].args
           r == Head(frame[p].records)
           record_key == RecordKey(r["__collection_id__"], r["__parent_id__"], r["id"])
       IN  /\ db' = RemovePipeline(db, r["__collection_id__"], r["__parent_id__"], r["id"])
           /\ IF record_key \notin DOMAIN db.kv
              THEN Ends(p, "delete_all", a, Raise(db, "RecordNotFoundError", r["id"]))
              ELSE GoesOn(p, "delete_all_set_record_timestamp",
                          [args |-> a, records |-> frame[p].records,
                           deleted |-> frame[p].deleted,
                           existing |-> DelField(_decode(db.kv[record_key]),
                                                 "last_modified")])
    /\ UNCHANGED <<gen, readonly, watched, issued, perm>>

\* delete_all: set_record_timestamp and strip_deleted_record of that delete.
delete_all_set_record_timestamp(p, times) ==
    /\ pc[p] = "delete_all_set_record_timestamp"
    /\ \E now \in times :
         LET r       == Head(frame[p].records)
             stamped == set_record_timestamp(db, r["__collection_id__"], r["__parent_id__"],
                                             frame[p].existing, NoneInt, now)
         IN  /\ WithinBounds(stamped.db)
             /\ db' = stamped.db
             /\ GoesOn(p, "delete_all_tombstone",
                       [frame[p] EXCEPT !.existing = strip_deleted_record(stamped.val)])
    /\ UNCHANGED <<gen, readonly, watched, issued, perm>>

\* delete_all: the second pipeline of that delete, then the next record or
\* the return of the tombstones.
delete_all_tombstone(p) ==
    /\ pc[p] = "delete_all_tombstone"
    /\ LET a       == frame[p].args
           r       == Head(frame[p].records)
           deleted == Append(frame[p].deleted, frame[p].existing)
       IN  /\ db' = TombstonePipeline(db, r["__collection_id__"], r["__parent_id__"],
                                      r["id"], frame[p].existing)
           /\ IF Len(frame[p].records) = 1
              THEN Ends(p, "delete_all", a, Ok(db', deleted))
              ELSE GoesOn(p, "delete_all_remove",
                          [args |-> a, records |-> Tail(frame[p].records),
                           deleted |-> deleted])
    /\ UNCHANGED <<gen, readonly, watched, issued, perm>>

\* purge_deleted: the scan and the SMEMBERS pipeline on the tombstone-id set
\* of the scope.
purge_deleted_smembers(p, befores) ==
    /\ pc[p] = "idle"
    /\ \E before \in befores :
         LET a   == [collection_id |-> "c1", parent_id |-> "p1", before |-> before]
             ids == SMembers(db.sets, DeletedKey("c1", "p1"))
         IN  IF Cardinality(ids) = 0
             THEN Ends(p, "purge_deleted", a, Ok(db, 0))
             ELSE GoesOn(p, "purge_deleted_mget", [args |-> a, ids |-> ids])
    /\ UNCHANGED <<db, gen, readonly, watched, issued, perm>>

\* purge_deleted: the MGET of the tombstones and the choice of to_remove.
purge_deleted_mget(p) ==
    /\ pc[p] = "purge_deleted_mget"
    /\ LET a         == frame[p].args
           deleted   == MGetDecoded(db, DeletedKey(a.collection_id, a.parent_id),
                                    frame[p].ids, "deleted")
           to_remove == {t["id"] : t \in {x \in deleted :
                            a.before = NoneInt \/ x["last_modified"] < a.before}}
       IN  IF Cardinality(to_remove) = 0
           THEN Ends(p, "purge_deleted", a, Ok(db, 0))
           ELSE GoesOn(p, "purge_deleted_execute", [args |-> a, to_remove |-> to_remove])
    /\ UNCHANGED <<db, gen, readonly, watched, issued, perm>>

\* purge_deleted: the pipeline (DEL of the tombstones, SREM of their ids).
purge_deleted_execute(p) ==
    /\ pc[p] = "purge_deleted_execute"
    /\ LET a == frame[p].args
       IN  /\ db' = [kv   |-> KvDel(db.kv, {DeletedRecordKey(a.collection_id, a.parent_id, _id) :
                                               _id \in frame[p].to_remove}),
                     sets |-> SRem(db.sets, DeletedKey(a.collection_id, a.parent_id),
                                   frame[p].to_remove)]
           /\ Ends(p, "purge_deleted", a, Ok(db', Cardinality(frame[p].to_remove)))
    /\ UNCHANGED <<gen, readonly, watched, issued, perm>>

\* The clock standing still.
Instant == {1}

NextIndex ==
    \/ \E p \in Procs :
           \/ create_get(p, {[id |-> "a", v |-> 1]})
           \/ create_set_record_timestamp(p, Instant)
           \/ create_store(p)
           \/ update_set_record_timestamp(p, {"a"}, {[v |-> 2]}, Instant)
           \/ update_store(p)
           \/ delete_remove(p, {"a"}, {TRUE})
           \/ delete_set_record_timestamp(p, Instant)
           \/ delete_tombstone(p)
           \/ delete_all_smembers(p)
           \/ delete_all_mget(p)
           \/ delete_all_remove(p)
           \/ delete_all_set_record_timestamp(p, Instant)
           \/ delete_all_tombstone(p)
           \/ purge_deleted_smembers(p, {NoneInt})
           \/ purge_deleted_mget(p)
           \/ purge_deleted_execute(p)
    \/ Return

SpecIndex == Init /\ [][NextIndex]_vars

\* C22: in every state reached by interleaved creates, updates, deletes,
\* delete_alls and purge_deleteds, the live-id set of a scope holds exactly
\* the ids for which a live object value is stored in the scope.
C22_IndexInStep ==
    \A c \in Collections, par \in Parents :
        SMembers(db.sets, RecordsKey(c, par))
            = {key[3] : key \in {k \in LiveKeys(db) : k[1] = c /\ k[2] = par}}

\* C22 witness: a delete is between its two pipelines while another caller
\* has stored the same id again.
C22_Witness ==
    /\ \E p \in Procs : pc[p] \in {"tombstone", "delete_all_tombstone"}
    /\ SMembers(db.sets, RecordsKey("c1", "p1")) = {"a"}
    /\ RecordKey("c1", "p1", "a") \in DOMAIN db.kv

-----------------------------------------------------------------------------
(* SpecDeletes: one object is created, then the callers delete it, each    *)
(* delete one store call at a time.                                        *)

\* The ids of the objects of the scenario.
DeleteTargets == {"a", "b"}

\* The callers in a delete of _id after the first pipeline has taken the object.
Deleting(_id) ==
    {p \in Procs : /\ pc[p] \in {"set_record_timestamp", "tombstone"}
                   /\ frame[p].args.object_id = _id}

\* The create that makes an object: the only create of that id.
create_first(p) ==
    \E _id \in DeleteTargets :
        /\ RecordKey("c1", "p1", _id) \notin DOMAIN db.kv
        /\ DeletedRecordKey("c1", "p1", _id) \notin DOMAIN db.kv
        /\ \A q \in Procs : pc[q] \in {"create_set_record_timestamp", "create_store"}
                                   => frame[q].record["id"] # _id
        /\ Deleting(_id) = {}
        /\ create_get(p, {[id |-> _id, v |-> 1]})

NextDeletes ==
    \/ \E p \in Procs :
           \/ create_first(p)
           \/ create_set_record_timestamp(p, Clock)
           \/ create_store(p)
           \/ delete_remove(p, DeleteTargets, {TRUE})
           \/ delete_set_record_timestamp(p, Clock)
           \/ delete_tombstone(p)
    \/ Return

SpecDeletes == Init /\ [][NextDeletes]_vars

\* C27: of the concurrent deletes of one live id, one only takes the object
\* (at most one caller is past the first pipeline, and none once the
\* tombstone is stored); that one returns the tombstone it stores, the only
\* tombstone of the id; every other delete fails with RecordNotFoundError and
\* leaves the store, its scope timestamp included, as it was; the scope
\* timestamp moves only at the stamp of a create or of the delete that took
\* the object.
C27_OneDeleteWins ==
    /\ [](\A _id \in DeleteTargets :
            Cardinality(Deleting(_id))
              + (IF DeletedRecordKey("c1", "p1", _id) \in DOMAIN db.kv THEN 1 ELSE 0) <= 1)
    /\ [][(ret.op = "none" /\ ret'.op = "delete") =>
            LET tombstone_key == DeletedRecordKey("c1", "p1", ret'.args.object_id)
            IN  IF ret'.exc = ""
                THEN /\ tombstone_key \notin DOMAIN db.kv
                     /\ tombstone_key \in DOMAIN db'.kv
                     /\ _decode(db'.kv[tombstone_key]) = ret'.val
                     /\ ret'.val["deleted"] = TRUE
                     /\ ret'.val["id"] = ret'.args.object_id
                     /\ ret'.args.object_id \in SMembers(db'.sets, DeletedKey("c1", "p1"))
                     /\ CounterOf(db', TimestampKey("c1", "p1")) = CounterOf(db, TimestampKey("c1", "p1"))
                ELSE /\ ret'.exc = "RecordNotFoundError"
                     /\ db' = db]_vars
    /\ [][CounterOf(db', TimestampKey("c1", "p1")) # CounterOf(db, TimestampKey("c1", "p1"))
            => \E p \in Procs :
                 \/ pc[p] = "create_set_record_timestamp" /\ pc'[p] = "create_store"
                 \/ /\ pc[p] = "set_record_timestamp" /\ pc'[p] = "tombstone"
                    /\ Deleting(frame[p].args.object_id) = {p}
                    /\ frame'[p].existing["last_modified"]
                         = CounterOf(db', TimestampKey("c1", "p1"))
                    /\ CounterOf(db', TimestampKey("c1", "p1"))
                         > CounterOf(db, TimestampKey("c1", "p1"))]_vars

\* C27 witness: a delete of a has failed with RecordNotFoundError while
\* another caller, which took the object, is between its two pipelines.
C27_Witness ==
    /\ ret.op = "delete"
    /\ ret.exc = "RecordNotFoundError"
    /\ \E p \in Deleting(ret.args.object_id) : pc[p] = "tombstone"

-----------------------------------------------------------------------------
(* get_all one store call at a time                                        *)

\* get_all: the scan and the SMEMBERS pipeline of _get_objects_by_parent_id;
\* no id listed, no MGET.
get_all_smembers(p) ==
    /\ pc[p] = "idle"
    /\ \E include_deleted \in BOOLEAN :
         LET a   == [collection_id |-> "c1", parent_id |-> "p1",
                     include_deleted |-> include_deleted]
             ids == SMembers(db.sets, RecordsKey("c1", "p1"))
         IN  GoesOn(p, IF Cardinality(ids) = 0 THEN "get_all_records" ELSE "get_all_mget",
                    [args |-> a, ids |-> ids, records |-> {}])
    /\ UNCHANGED <<db, ret, gen, readonly, watched, issued, perm>>

\* get_all: the MGET of _get_objects_by_parent_id, missing values dropped.
get_all_mget(p) ==
    /\ pc[p] = "get_all_mget"
    /\ GoesOn(p, "get_all_records",
              [frame[p] EXCEPT !.records =
                  MGetDecoded(db, RecordsKey(frame[p].args.collection_id,
                                             frame[p].args.parent_id),
                              frame[p].ids, "records")])
    /\ UNCHANGED <<db, ret, gen, readonly, watched, issued, perm>>

\* get_all: back from _get_objects_by_parent_id; without include_deleted the
\* return, with it the scan and the SMEMBERS pipeline on the tombstone ids.
get_all_records_listed(p) ==
    /\ pc[p] = "get_all_records"
    /\ LET a   == frame[p].args
           ids == SMembers(db.sets, DeletedKey(a.collection_id, a.parent_id))
       IN  IF ~a.include_deleted \/ Cardinality(ids) = 0
           THEN Ends(p, "get_all", a, Ok(db, apply_filters(frame[p].records, NoneInt)))
           ELSE GoesOn(p, "get_all_deleted_mget",
                       [args |-> a, ids |-> frame[p].ids, records |-> frame[p].records,
                        deleted_ids |-> ids])
    /\ UNCHANGED <<db, gen, readonly, watched, issued, perm>>

\* get_all: the MGET of the tombstones, and the return.
get_all_deleted_mget(p) ==
    /\ pc[p] = "get_all_deleted_mget"
    /\ LET a       == frame[p].args
           deleted == MGetDecoded(db, DeletedKey(a.collection_id, a.parent_id),
                                  frame[p].deleted_ids, "deleted")
       IN  Ends(p, "get_all", a,
                Ok(db, apply_filters(frame[p].records \cup deleted, NoneInt)))
    /\ UNCHANGED <<db, gen, readonly, watched, issued, perm>>

-----------------------------------------------------------------------------
(* SpecFetch: get_all one store call at a time, beside creates and deletes *)
(* of two ids of its scope.                                                *)

\* delete, run without interleaving, by caller p.
delete_call(p, ids, times) ==
    /\ pc[p] = "idle"
    /\ \E object_id \in ids, now \in times :
         LET a == [collection_id |-> "c1", parent_id |-> "p1", object_id |-> object_id,
                   with_deleted |-> TRUE, last_modified |-> NoneInt]
             r == delete(db, "c1", "p1", object_id, TRUE, NoneInt, now)
         IN  /\ WithinBounds(r.db)
             /\ db' = r.db
             /\ Ends(p, "delete", a, r)
    /\ UNCHANGED <<gen, readonly, watched, issued, perm>>

NextFetch ==
    \/ \E p \in Procs :
           \/ create_call(p, {[id |-> "a", v |-> 1], [id |-> "b", v |-> 1]}, Instant)
           \/ delete_call(p, {"a", "b"}, Instant)
           \/ get_all_smembers(p)
           \/ get_all_mget(p)
           \/ get_all_records_listed(p)
           \/ get_all_deleted_mget(p)
    \/ Return

SpecFetch == Init /\ [][NextFetch]_vars

\* The objects stored, at the time of the MGET, under the ids get_all listed.
PresentOf(d, ids) ==
    {_decode(d.kv[RecordKey("c1", "p1", _id)]) :
        _id \in {i \in ids : RecordKey("c1", "p1", i) \in DOMAIN d.kv}}

\* C24: the bulk fetch of get_all keeps exactly the objects whose values are
\* stored at that time under the ids it listed, whether or not the other
\* listed ids still have a value, and the get_all that ends returns them
\* without an error.
C24_MissingSkipped ==
    [][\A p \in Procs :
         /\ (pc[p] = "get_all_mget" /\ pc'[p] # "get_all_mget")
              => /\ pc'[p] = "get_all_records"
                 /\ frame'[p].records = PresentOf(db, frame[p].ids)
         /\ (pc[p] \in {"get_all_records", "get_all_deleted_mget"} /\ pc'[p] = "idle")
              => /\ ret'.op = "get_all"
                 /\ ret'.exc = ""
                 /\ frame[p].records \subseteq ret'.val
                 /\ \A r \in ret'.val \ frame[p].records :
                        /\ frame[p].args.include_deleted
                        /\ r["deleted"] = TRUE]_vars

\* C24 witness: get_all listed a and b, found at the bulk fetch the value of
\* one only, and goes on with that object.
C24_Witness ==
    \E p \in Procs :
        /\ pc[p] = "get_all_records"
        /\ frame[p].ids = {"a", "b"}
        /\ Cardinality(frame[p].records) = 1

-----------------------------------------------------------------------------
(* Principals beside concurrent removes (SpecPerm) *)

\* C29 (as stated): a principal q leaves the set of a user only in a step of
\* a remove operation naming q (remove_user_principal of q on that user, or
\* remove_principal of q).
C29_Original ==
    [][\A user_id \in Users, q \in Principals :
         (/\ q \in SMembers(perm, UserKey(user_id))
          /\ q \notin SMembers(perm', UserKey(user_id)))
           => \E p \in Procs :
                \/ /\ pc[p] = "idle"
                   /\ pc'[p] = "scard"
                   /\ frame'[p].principal = q
                \/ /\ pc[p] \in {"scard", "delete", "execute"}
                   /\ frame[p].principal = q]_vars

-----------------------------------------------------------------------------
(* SpecKeys: the keys as the texts the code formats and splits.  A text is *)
(* a sequence of characters; the words records, deleted and permission of  *)
(* the format strings are written as one character each.                   *)

MaxLen == 2        \* longest identifier explored

Chars == {"x", "y", ".", ":"}

\* The identifiers a caller may pass: any characters, delimiters included.
Texts == UNION {[1..n -> Chars] : n \in 1..MaxLen}

\* The resource names: collection ids come from the resource classes.
ResourceNames == {<<"x">>, <<"y">>}

\* sep.join(parts)
RECURSIVE Join(_, _)
Join(parts, sep) ==
    IF Len(parts) = 1 THEN Head(parts)
    ELSE Head(parts) \o <<sep>> \o Join(Tail(parts), sep)

\* text.split(sep, maxsplit): at most maxsplit cuts, from the left; empty
\* pieces are kept.
RECURSIVE SplitMax(_, _, _)
SplitMax(text, sep, maxsplit) ==
    LET cuts == {i \in 1..Len(text) : text[i] = sep}
    IN  IF maxsplit = 0 \/ cuts = {}
        THEN <<text>>
        ELSE LET i == CHOOSE c \in cuts : \A other \in cuts : c <= other
             IN  <<SubSeq(text, 1, i - 1)>>
                     \o SplitMax(SubSeq(text, i + 1, Len(text)), sep, maxsplit - 1)

\* text.split(sep)
Split(text, sep) == SplitMax(text, sep, Len(text))

\* '{0}.{1}.records'.format(collection_id, parent_id), and the same with deleted
FormatCollectionKey(collection_id, parent_id, kind) ==
    Join(<<collection_id, parent_id, <<kind>>>>, ".")

\* '{0}.{1}.{2}.records'.format(collection_id, parent_id, _id), and the same
\* with deleted
FormatObjectKey(collection_id, parent_id, _id, kind) ==
    Join(<<collection_id, parent_id, _id, <<kind>>>>, ".")

\* if len(key.split('.')) == 3
ThreeSegments(key) == Len(Split(key, ".")) = 3

\* 'permission:%s:%s' % (object_id, permission)
FormatPermissionKey(object_id, permission) ==
    Join(<<<<"permission">>, object_id, permission>>, ":")

\* Variant of SplitPermissionKey that cuts at every colon.
SplitPermissionKey_every(key) == Split(key, ":")

\* _, obj_id, permission = key.decode('utf-8').split(':', 2)
SplitPermissionKey(key) == SplitMax(key, ":", 2)

FormatsCollectionKey ==
    \E c \in ResourceNames, par \in Texts, kind \in {"records", "deleted"} :
        /\ ret.op = "none"
        /\ ret' = [op |-> "collection_key", exc |-> "",
                   args |-> [collection_id |-> c, parent_id |-> par, kind |-> kind],
                   val |-> FormatCollectionKey(c, par, kind)]
        /\ UNCHANGED <<db, gen, readonly, pc, frame, watched, issued, perm>>

FormatsObjectKey ==
    \E c \in ResourceNames, par \in Texts, _id \in Texts, kind \in {"records", "deleted"} :
        /\ ret.op = "none"
        /\ ret' = [op |-> "object_key", exc |-> "",
                   args |-> [collection_id |-> c, parent_id |-> par, id |-> _id, kind |-> kind],
                   val |-> FormatObjectKey(c, par, _id, kind)]
        /\ UNCHANGED <<db, gen, readonly, pc, frame, watched, issued, perm>>

FormatsPermissionKey ==
    \E object_id \in Texts, permission \in Texts :
        /\ ret.op = "none"
        /\ ret' = [op |-> "permission_key", exc |-> "",
                   args |-> [object_id |-> object_id, permission |-> permission],
                   val |-> FormatPermissionKey(object_id, permission)]
        /\ UNCHANGED <<db, gen, readonly, pc, frame, watched, issued, perm>>

NextKeys ==
    \/ FormatsCollectionKey
    \/ FormatsObjectKey
    \/ FormatsPermissionKey
    \/ Return

SpecKeys == Init /\ [][NextKeys]_vars

\* The character is not in the text.
Without(text, char) == \A i \in 1..Len(text) : text[i] # char

\* The key in ret is that of no other scope, id set or object, among the
\* identifiers of the set texts; an id-set key passes the three-segment
\* filter and splits back to its scope.
KeysApart(texts) ==
    /\ ret.op = "collection_key" =>
         /\ \A c \in ResourceNames, par \in texts, kind \in {"records", "deleted"} :
                FormatCollectionKey(c, par, kind) = ret.val
                    => [collection_id |-> c, parent_id |-> par, kind |-> kind] = ret.args
         /\ \A c \in ResourceNames, par \in texts, _id \in texts, kind \in {"records", "deleted"} :
                FormatObjectKey(c, par, _id, kind) # ret.val
         /\ ThreeSegments(ret.val)
         /\ Split(ret.val, ".")
                = <<ret.args.collection_id, ret.args.parent_id, <<ret.args.kind>>>>
    /\ ret.op = "object_key" =>
         /\ \A c \in ResourceNames, par \in texts, _id \in texts, kind \in {"records", "deleted"} :
                FormatObjectKey(c, par, _id, kind) = ret.val
                    => [collection_id |-> c, parent_id |-> par, id |-> _id,
                        kind |-> kind] = ret.args
         /\ \A c \in ResourceNames, par \in texts, kind \in {"records", "deleted"} :
                FormatCollectionKey(c, par, kind) # ret.val
         /\ ~ThreeSegments(ret.val)

\* The permission key in ret is that of no other (object_id, permission)
\* among the object ids of the set texts, and splits back to its pair.
PermissionKeysApart(texts) ==
    ret.op = "permission_key" =>
        /\ \A object_id \in texts, permission \in Texts :
               FormatPermissionKey(object_id, permission) = ret.val
                   => [object_id |-> object_id, permission |-> permission] = ret.args
        /\ SplitPermissionKey(ret.val)
               = <<<<"permission">>, ret.args.object_id, ret.args.permission>>

\* The identifiers without a dot, the object ids without a colon.
Undotted == {text \in Texts : Without(text, ".")}
Uncoloned == {text \in Texts : Without(text, ":")}

\* C23 (as stated): key construction is injective and consistent with the
\* three-segment filter and the split of permission keys, whatever the
\* characters of the identifiers, delimiters included.
C23_Original ==
    /\ KeysApart(Texts)
    /\ PermissionKeysApart(Texts)

\* C23 (amended): for parent ids and ids without '.', distinct (resource,
\* parent, id, kind) tuples have distinct keys, an id-set key is never an
\* object key, passes the three-segment filter and splits back to its scope;
\* for object ids without ':' (the permission name may hold ':'), distinct
\* (object_id, permission) pairs have distinct keys, which split back to the
\* pair.
C23_KeysApart ==
    /\ (/\ ret.op \in {"collection_key", "object_key"}
        /\ ret.args.parent_id \in Undotted
        /\ ret.op = "object_key" => ret.args.id \in Undotted)
         => KeysApart(Undotted)
    /\ (/\ ret.op = "permission_key"
        /\ ret.args.object_id \in Uncoloned)
         => PermissionKeysApart(Uncoloned)

\* C23 witness: the key of a permission whose name holds a colon, on an
\* object id without one.
C23_Witness ==
    /\ ret.op = "permission_key"
    /\ ret.args.object_id \in Uncoloned
    /\ ~Without(ret.args.permission, ":")
    /\ Len(ret.args.permission) = MaxLen

\* C28 (as stated): a get_all with include_deleted never returns two objects
\* with the same id.
C28_Original ==
    [][(ret.op = "none" /\ ret'.op = "get_all" /\ ret'.args.include_deleted)
         => \A r1, r2 \in ret'.val : r1["id"] = r2["id"] => r1 = r2]_vars

====
